---------------------------- MODULE Spec2Model ----------------------------
(***************************************************************************)
(* A model of the bundler core: the MemoryStore mempool (four lists and    *)
(* the nonce reconciliation updateAvailableUserOperations), the sender     *)
(* manager (the local semaphore-guarded deque of signing accounts and the  *)
(* list shared through Redis) and the gas price manager (fee sources, the  *)
(* bump, the three queues and the calls that read them).                   *)
(***************************************************************************)
EXTENDS Integers, Sequences, FiniteSets, TLC

(***************************************************************************)
(* Bounds of the model.                                                    *)
(***************************************************************************)
\* total number of entries the three lifecycle lists may hold together
MaxOps == 3
\* the nonce oracle answers with a value in 0..MaxNonce
MaxNonce == 1
\* entries the three lists may hold together while a caller keeps a dumped array
MaxDumpOps == 2
\* stand-in for 2^64, the span of the nonce value below the nonce key
NonceValueSpan == 4
\* stand-in for 10^9, the number of wei in one gwei
WeiPerGwei == 10

(***************************************************************************)
(* Sequence helpers (Array.prototype.findIndex / splice / includes).       *)
(***************************************************************************)
Range(s) == {s[i] : i \in 1..Len(s)}

\* s.splice(i, 1), 1-based; the relative order of the rest is kept
Splice(s, i) == [j \in 1..(Len(s) - 1) |-> IF j < i THEN s[j] ELSE s[j + 1]]

\* number of positions of s holding x
Count(s, x) == Cardinality({i \in 1..Len(s) : s[i] = x})

\* s with later repetitions dropped, first occurrences kept in order
\* (the iteration order of new Set([...s]))
RECURSIVE Distinct(_)
Distinct(s) ==
    IF s = <<>> THEN <<>>
    ELSE <<s[1]>> \o Distinct(SelectSeq(Tail(s), LAMBDA x : x # s[1]))

(***************************************************************************)
(* User operations.                                                        *)
(***************************************************************************)
Hashes == {"h1", "h2", "h3"}

\* nonce = (key << 64) | value
PackNonce(key, value) == key * NonceValueSpan + value

\* h1 and h3 carry the same (sender, nonceKey, nonceValue); h2 is of another pair;
\* h4 and h5 are of the pairs of h1 and h2 with the next nonce value
UserOperationOf(h) ==
    CASE h = "h1" -> [sender |-> "0xA", nonce |-> PackNonce(0, 0)]
      [] h = "h2" -> [sender |-> "0xB", nonce |-> PackNonce(1, 0)]
      [] h = "h3" -> [sender |-> "0xA", nonce |-> PackNonce(0, 0)]
      [] h = "h4" -> [sender |-> "0xA", nonce |-> PackNonce(0, 1)]
      [] h = "h5" -> [sender |-> "0xB", nonce |-> PackNonce(1, 1)]

\* user operations no two of which carry the same (sender, nonceKey, nonceValue)
DistinctHashes == {"h1", "h2", "h4", "h5"}

UserOperationInfo(h) == [userOperationHash |-> h, userOperation |-> UserOperationOf(h)]
SubmittedUserOperation(h) == [userOperation |-> UserOperationInfo(h)]

getNonceKeyAndValue(op) == <<op.nonce \div NonceValueSpan, op.nonce % NonceValueSpan>>

\* `${op.sender}_${nonceKey}`: the two parts joined by "_"
getSenderNonceKeyPair(op) == <<op.sender, "_", getNonceKeyAndValue(op)[1]>>

\* senderNonceKeyPair.split("_"), then BigInt of the second part
parseSenderNonceKeyPair(senderNonceKeyPair) ==
    [sender |-> senderNonceKeyPair[1], nonceKey |-> senderNonceKeyPair[3]]

(***************************************************************************)
(* State of a MemoryStore.                                                 *)
(***************************************************************************)
VARIABLES
    outstandingUserOperations,
    avaiableOutstandingUserOperations,
    processingUserOperations,
    submittedUserOperations,
    \* the promise of the latest updateAvailableUserOperations call:
    \* state "none" (never called), "pending" (suspended in the multicall, holding
    \* its snapshot outstandingOps), "fulfilled" or "rejected"
    reconciliation,
    \* the value of the gauge metrics.userOperationsInMempool under the label
    \* status "outstanding"
    userOperationsInMempool

metricVars == <<userOperationsInMempool>>

storeVars == <<outstandingUserOperations, avaiableOutstandingUserOperations,
               processingUserOperations, submittedUserOperations>>

Settled(state) == [state |-> state, outstandingOps |-> <<>>]
Pending(outstandingOps) == [state |-> "pending", outstandingOps |-> outstandingOps]

HashesOf(list) == {list[i].userOperationHash : i \in 1..Len(list)}
SubmittedHashes == {submittedUserOperations[i].userOperation.userOperationHash :
                        i \in 1..Len(submittedUserOperations)}

\* findIndex((op) => op.userOperationHash === userOpHash); 0 stands for -1
findIndex(list, userOpHash) ==
    LET hits == {i \in 1..Len(list) : list[i].userOperationHash = userOpHash}
    IN IF hits = {} THEN 0 ELSE CHOOSE i \in hits : \A j \in hits : i <= j

findIndexSubmitted(list, userOpHash) ==
    LET hits == {i \in 1..Len(list) : list[i].userOperation.userOperationHash = userOpHash}
    IN IF hits = {} THEN 0 ELSE CHOOSE i \in hits : \A j \in hits : i <= j

Room == Len(outstandingUserOperations) + Len(processingUserOperations)
            + Len(submittedUserOperations) < MaxOps

InitStore ==
    /\ outstandingUserOperations = <<>>
    /\ avaiableOutstandingUserOperations = <<>>
    /\ processingUserOperations = <<>>
    /\ submittedUserOperations = <<>>
    /\ reconciliation = Settled("none")
    /\ userOperationsInMempool = 0

(***************************************************************************)
(* add*: push onto the list.                                               *)
(***************************************************************************)
addOutstanding(h) ==
    /\ Room
    /\ outstandingUserOperations' = Append(outstandingUserOperations, UserOperationInfo(h))
    /\ UNCHANGED <<avaiableOutstandingUserOperations, processingUserOperations,
                   submittedUserOperations, reconciliation>>

addProcessing(h) ==
    /\ Room
    /\ processingUserOperations' = Append(processingUserOperations, UserOperationInfo(h))
    /\ UNCHANGED <<outstandingUserOperations, avaiableOutstandingUserOperations,
                   submittedUserOperations, reconciliation>>

addSubmitted(h) ==
    /\ Room
    /\ submittedUserOperations' = Append(submittedUserOperations, SubmittedUserOperation(h))
    /\ UNCHANGED <<outstandingUserOperations, avaiableOutstandingUserOperations,
                   processingUserOperations, reconciliation>>

(***************************************************************************)
(* remove*: splice the first entry with the hash, warn when there is none. *)
(***************************************************************************)
\* removeOutstanding without the removal from the available list
removeOutstanding_noCascade(userOpHash) ==
    LET index == findIndex(outstandingUserOperations, userOpHash)
    IN /\ IF index = 0
          THEN UNCHANGED outstandingUserOperations
          ELSE outstandingUserOperations' = Splice(outstandingUserOperations, index)
       /\ UNCHANGED <<avaiableOutstandingUserOperations, processingUserOperations,
                      submittedUserOperations, reconciliation>>

\* removeOutstanding with splice(index) for splice(index, 1): the rest goes too
removeOutstanding_spliceRest(userOpHash) ==
    LET index == findIndex(outstandingUserOperations, userOpHash)
        availableIndex == findIndex(avaiableOutstandingUserOperations, userOpHash)
    IN /\ IF index = 0
          THEN UNCHANGED <<outstandingUserOperations, avaiableOutstandingUserOperations>>
          ELSE /\ outstandingUserOperations' =
                      SubSeq(outstandingUserOperations, 1, index - 1)
               /\ IF availableIndex = 0
                  THEN UNCHANGED avaiableOutstandingUserOperations
                  ELSE avaiableOutstandingUserOperations' =
                           SubSeq(avaiableOutstandingUserOperations, 1, availableIndex - 1)
       /\ UNCHANGED <<processingUserOperations, submittedUserOperations, reconciliation>>

\* removeOutstanding without its first early return: the available list is
\* searched and spliced also when the hash is not in the outstanding list
removeOutstanding_noEarlyReturn(userOpHash) ==
    LET index == findIndex(outstandingUserOperations, userOpHash)
        availableIndex == findIndex(avaiableOutstandingUserOperations, userOpHash)
    IN /\ IF index = 0
          THEN UNCHANGED outstandingUserOperations
          ELSE outstandingUserOperations' = Splice(outstandingUserOperations, index)
       /\ IF availableIndex = 0
          THEN UNCHANGED avaiableOutstandingUserOperations
          ELSE avaiableOutstandingUserOperations' =
                   Splice(avaiableOutstandingUserOperations, availableIndex)
       /\ UNCHANGED <<processingUserOperations, submittedUserOperations, reconciliation>>

removeOutstanding(userOpHash) ==
    LET index == findIndex(outstandingUserOperations, userOpHash)
        availableIndex == findIndex(avaiableOutstandingUserOperations, userOpHash)
    IN /\ IF index = 0
          THEN UNCHANGED <<outstandingUserOperations, avaiableOutstandingUserOperations>>
          ELSE /\ outstandingUserOperations' = Splice(outstandingUserOperations, index)
               /\ IF availableIndex = 0
                  THEN UNCHANGED avaiableOutstandingUserOperations
                  ELSE avaiableOutstandingUserOperations' =
                           Splice(avaiableOutstandingUserOperations, availableIndex)
       /\ UNCHANGED <<processingUserOperations, submittedUserOperations, reconciliation>>

\* removeProcessing looking the hash up in the outstanding list
removeProcessing_wrongList(userOpHash) ==
    LET index == findIndex(outstandingUserOperations, userOpHash)
    IN /\ IF index = 0 \/ index > Len(processingUserOperations)
          THEN UNCHANGED processingUserOperations
          ELSE processingUserOperations' = Splice(processingUserOperations, index)
       /\ UNCHANGED <<outstandingUserOperations, avaiableOutstandingUserOperations,
                      submittedUserOperations, reconciliation>>

removeProcessing(userOpHash) ==
    LET index == findIndex(processingUserOperations, userOpHash)
    IN /\ IF index = 0
          THEN UNCHANGED processingUserOperations
          ELSE processingUserOperations' = Splice(processingUserOperations, index)
       /\ UNCHANGED <<outstandingUserOperations, avaiableOutstandingUserOperations,
                      submittedUserOperations, reconciliation>>

removeSubmitted(userOpHash) ==
    LET index == findIndexSubmitted(submittedUserOperations, userOpHash)
    IN /\ IF index = 0
          THEN UNCHANGED submittedUserOperations
          ELSE submittedUserOperations' = Splice(submittedUserOperations, index)
       /\ UNCHANGED <<outstandingUserOperations, avaiableOutstandingUserOperations,
                      processingUserOperations, reconciliation>>

(***************************************************************************)
(* clear(from): the named field is assigned a new empty array.             *)
(***************************************************************************)
ClearTargets == {"outstanding", "processing", "submitted"}

\* clear that empties the available list along with the outstanding one
clear_cascading(from) ==
    /\ from \in ClearTargets
    /\ outstandingUserOperations' =
           IF from = "outstanding" THEN <<>> ELSE outstandingUserOperations
    /\ avaiableOutstandingUserOperations' =
           IF from = "outstanding" THEN <<>> ELSE avaiableOutstandingUserOperations
    /\ processingUserOperations' =
           IF from = "processing" THEN <<>> ELSE processingUserOperations
    /\ submittedUserOperations' =
           IF from = "submitted" THEN <<>> ELSE submittedUserOperations
    /\ UNCHANGED reconciliation

clear(from) ==
    /\ from \in ClearTargets
    /\ outstandingUserOperations' =
           IF from = "outstanding" THEN <<>> ELSE outstandingUserOperations
    /\ processingUserOperations' =
           IF from = "processing" THEN <<>> ELSE processingUserOperations
    /\ submittedUserOperations' =
           IF from = "submitted" THEN <<>> ELSE submittedUserOperations
    /\ UNCHANGED <<avaiableOutstandingUserOperations, reconciliation>>

(***************************************************************************)
(* dump*: each returns the array the field refers to.                      *)
(***************************************************************************)
dumbAvailableOutstanding == avaiableOutstandingUserOperations
dumpOutstanding == outstandingUserOperations
dumpProcessing == processingUserOperations
dumpSubmitted == submittedUserOperations

(***************************************************************************)
(* updateAvailableUserOperations.                                          *)
(***************************************************************************)
\* the pairs taken from the snapshot without the Set: one per operation
allSendersAndNonceKeys_noSet(outstandingOps) ==
    [i \in 1..Len(outstandingOps) |->
         parseSenderNonceKeyPair(getSenderNonceKeyPair(outstandingOps[i].userOperation))]

\* the (sender, nonceKey) pairs of the snapshot, each once, in first-seen order
allSendersAndNonceKeys(outstandingOps) ==
    LET raw == Distinct([i \in 1..Len(outstandingOps) |->
                             getSenderNonceKeyPair(outstandingOps[i].userOperation)])
    IN [i \in 1..Len(raw) |-> parseSenderNonceKeyPair(raw[i])]

\* what one getNonce call of the batch may come back with
NonceResults ==
    [status : {"success"}, result : 0..MaxNonce] \cup [status : {"failure"}, result : {0}]

\* the (sender, nonceKey) pairs the user operations of the model belong to
KnownPairs ==
    {<<UserOperationOf(h).sender, getNonceKeyAndValue(UserOperationOf(h))[1]>> : h \in Hashes}

\* the nonce oracle at the time of the multicall: an answer per (sender, nonceKey)
Oracles == [KnownPairs -> NonceResults]

\* a batch in which a failed getNonce call counts as the answer 0
multicall_failureAsZero(pairs, oracle) ==
    [i \in 1..Len(pairs) |-> [status |-> "success",
                              result |-> oracle[<<pairs[i].sender, pairs[i].nonceKey>>].result]]

\* results[i] answers allSendersAndNonceKeys[i]
multicall(pairs, oracle) ==
    [i \in 1..Len(pairs) |-> oracle[<<pairs[i].sender, pairs[i].nonceKey>>]]

\* the operations of the pair, whatever their nonce value
matchingOps_anyValue(outstandingOps, sender, nonceKey, nonceValue) ==
    SelectSeq(outstandingOps,
              LAMBDA op : /\ op.userOperation.sender = sender
                          /\ getNonceKeyAndValue(op.userOperation)[1] = nonceKey)

\* the operations of the snapshot pushed for one pair with a successful result
matchingOps(outstandingOps, sender, nonceKey, nonceValue) ==
    SelectSeq(outstandingOps,
              LAMBDA op : /\ op.userOperation.sender = sender
                          /\ getNonceKeyAndValue(op.userOperation)[1] = nonceKey
                          /\ getNonceKeyAndValue(op.userOperation)[2] = nonceValue)

\* the loop over the pairs, from pair i on
RECURSIVE availableFrom(_, _, _, _)
availableFrom(outstandingOps, pairs, results, i) ==
    IF i > Len(pairs) THEN <<>>
    ELSE (IF results[i].status = "success"
          THEN matchingOps(outstandingOps, pairs[i].sender, pairs[i].nonceKey,
                           results[i].result)
          ELSE <<>>)
         \o availableFrom(outstandingOps, pairs, results, i + 1)

\* the promoted operations in the order of the snapshot
availableOutstandingOps_snapshotOrder(outstandingOps, oracle) ==
    SelectSeq(outstandingOps,
              LAMBDA op :
                  LET key == getNonceKeyAndValue(op.userOperation)
                      result == oracle[<<op.userOperation.sender, key[1]>>]
                  IN result.status = "success" /\ result.result = key[2])

availableOutstandingOps(outstandingOps, oracle) ==
    LET pairs == allSendersAndNonceKeys(outstandingOps)
    IN availableFrom(outstandingOps, pairs, multicall(pairs, oracle), 1)

\* the new operations pushed onto the list the field already holds
published_appended(previous, outstandingOps, oracle) ==
    previous \o availableOutstandingOps(outstandingOps, oracle)

\* the list computed from outstanding as it is when the multicall returns
published_fromCurrent(previous, outstandingOps, oracle) ==
    availableOutstandingOps(outstandingUserOperations, oracle)

\* the list assigned to the field when the call finishes
published(previous, outstandingOps, oracle) ==
    availableOutstandingOps(outstandingOps, oracle)

\* entry: the snapshot dumpOutstanding().slice(), then the await of the multicall
updateAvailableUserOperations_call ==
    /\ reconciliation.state # "pending"
    /\ reconciliation' = Pending(dumpOutstanding)
    /\ UNCHANGED storeVars

\* the multicall resolved: the loop runs and the new list is assigned
updateAvailableUserOperations_resume(oracle) ==
    /\ reconciliation.state = "pending"
    /\ reconciliation' = Settled("fulfilled")
    /\ avaiableOutstandingUserOperations' =
           published(avaiableOutstandingUserOperations, reconciliation.outstandingOps, oracle)
    /\ UNCHANGED <<outstandingUserOperations, processingUserOperations,
                   submittedUserOperations>>

\* a rejected multicall after which the available list is left empty
updateAvailableUserOperations_throw_emptied ==
    /\ reconciliation.state = "pending"
    /\ avaiableOutstandingUserOperations' = <<>>
    /\ reconciliation' = Settled("rejected")
    /\ UNCHANGED <<outstandingUserOperations, processingUserOperations,
                   submittedUserOperations>>

\* the multicall rejected: the exception leaves the function
updateAvailableUserOperations_throw ==
    /\ reconciliation.state = "pending"
    /\ reconciliation' = Settled("rejected")
    /\ UNCHANGED storeVars

\* a call that runs to completion before anything else happens
updateAvailableUserOperations(oracle) ==
    /\ reconciliation.state # "pending"
    /\ reconciliation' = Settled("fulfilled")
    /\ UNCHANGED <<outstandingUserOperations, processingUserOperations,
                   submittedUserOperations>>
    /\ avaiableOutstandingUserOperations' =
           published(avaiableOutstandingUserOperations, dumpOutstanding, oracle)

updateAvailableUserOperations_rejected ==
    /\ reconciliation.state # "pending"
    /\ reconciliation' = Settled("rejected")
    /\ UNCHANGED storeVars

(***************************************************************************)
(* Callers of the store.                                                   *)
(***************************************************************************)
VARIABLES
    \* the caller's bookkeeping: the list it last added each hash to and has
    \* not removed it from since ("none" when there is no such list)
    callerView,
    \* TRUE as long as every add was made with a hash the bookkeeping had in no list
    disciplined,
    \* the latest call that ran to completion, when nothing was called since:
    \* its snapshot and oracle, whether the call before it had the same two,
    \* and the hashes it took out of the available list
    lastReconciliation,
    \* the array a dump* call returned to the caller: the store it came from,
    \* whether the store's field still refers to it, and what it holds now
    dumped

callerVars == <<callerView, disciplined, lastReconciliation, dumped>>

NoReconciliation ==
    [valid |-> FALSE, outstandingOps |-> <<>>, oracle |-> <<>>, repeated |-> FALSE,
     dropped |-> {}]
NotDumped ==
    [taken |-> FALSE, store |-> "none", attached |-> FALSE, list |-> <<>>]

InitCallers ==
    /\ callerView = [h \in Hashes |-> "none"]
    /\ disciplined = TRUE
    /\ lastReconciliation = NoReconciliation
    /\ dumped = NotDumped

\* the hash is in none of the three lists (what a caller finds in the dumps)
Fresh(h) ==
    /\ h \notin HashesOf(outstandingUserOperations)
    /\ h \notin HashesOf(processingUserOperations)
    /\ h \notin SubmittedHashes

(***************************************************************************)
(* The local sender manager.                                               *)
(***************************************************************************)
ExecutorPrivateKeys == <<"w1", "w2", "w3">>
\* config.maxExecutors: <<>> when undefined, <<n>> when set to n
MaxExecutorsSettings == {<<>>, <<1>>, <<2>>, <<3>>, <<4>>}
Callers == {"c1", "c2", "c3"}

\* a slice that keeps the last maxExecutors keys
getAvailableWallets_tail(cfg) ==
    IF cfg.maxExecutors # <<>>
           /\ Len(cfg.executorPrivateKeys) > cfg.maxExecutors[1]
    THEN SubSeq(cfg.executorPrivateKeys,
                Len(cfg.executorPrivateKeys) - cfg.maxExecutors[1] + 1,
                Len(cfg.executorPrivateKeys))
    ELSE cfg.executorPrivateKeys

getAvailableWallets(cfg) ==
    IF cfg.maxExecutors # <<>>
           /\ Len(cfg.executorPrivateKeys) > cfg.maxExecutors[1]
    THEN SubSeq(cfg.executorPrivateKeys, 1, cfg.maxExecutors[1])
    ELSE cfg.executorPrivateKeys

VARIABLES
    config,
    \* the closure's copy of the pool, and the deque of free accounts
    wallets,
    availableWallets,
    \* the semaphore: its value and the callers queued in acquire()
    semaphoreValue,
    semaphoreQueue,
    \* the getWallet calls whose acquire() resolved and whose code after the
    \* await has not run yet, in the order the promise jobs were queued
    continuations,
    \* each getWallet caller: "idle", "waiting" (queued in acquire), "acquired"
    \* (acquire resolved, getWallet not resumed yet), "holding" or "failed"
    callerState,
    \* the account each caller got from getWallet ("none" when it holds none)
    callerWallet,
    \* metrics.walletsAvailable: <<>> before the first set, <<n>> after set(n)
    walletsAvailable

senderVars == <<config, wallets, availableWallets, semaphoreValue, semaphoreQueue, continuations,
                callerState, callerWallet, walletsAvailable>>

\* config.redisQueueEndpoint: <<>> when unset, <<url>> when set
RedisQueueEndpoints == {<<>>, <<"redis://queue">>}

Configs == [executorPrivateKeys : {ExecutorPrivateKeys},
            maxExecutors : MaxExecutorsSettings,
            redisQueueEndpoint : RedisQueueEndpoints]

\* a semaphore made with one permit more than the pool has accounts
createLocalSenderManager_extraPermit(cfg) ==
    /\ config = cfg
    /\ wallets = getAvailableWallets(config)
    /\ availableWallets = wallets
    /\ semaphoreValue = Len(availableWallets) + 1
    /\ semaphoreQueue = <<>>
    /\ continuations = <<>>
    /\ callerState = [c \in Callers |-> "idle"]
    /\ callerWallet = [c \in Callers |-> "none"]
    /\ walletsAvailable = <<>>

\* createLocalSenderManager({config})
createLocalSenderManager(cfg) ==
    /\ config = cfg
    /\ wallets = getAvailableWallets(config)
    /\ availableWallets = wallets
    /\ semaphoreValue = Len(availableWallets)
    /\ semaphoreQueue = <<>>
    /\ continuations = <<>>
    /\ callerState = [c \in Callers |-> "idle"]
    /\ callerWallet = [c \in Callers |-> "none"]
    /\ walletsAvailable = <<>>


\* Semaphore: the queued callers that a value serves now, oldest first
dispatched_newest(value, queue) ==
    IF value > 0 /\ queue # <<>> THEN {queue[Len(queue)]} ELSE {}
\* the caller a free permit goes to: the one that has waited longest
dispatched(value, queue) ==
    IF value > 0 /\ queue # <<>> THEN {Head(queue)} ELSE {}

\* the continuations of the served callers join the queue of promise jobs
resumedLater(jobs, served) ==
    IF served = {} THEN jobs ELSE Append(jobs, CHOOSE d \in served : TRUE)

\* getWallet up to its await: semaphore.acquire() queues the caller and serves
\* the head of the queue when the value allows
getWallet_call(c) ==
    /\ callerState[c] = "idle"
    /\ LET queue == Append(semaphoreQueue, c)
           served == dispatched(semaphoreValue, queue)
       IN /\ semaphoreQueue' = IF served = {} THEN queue ELSE Tail(queue)
          /\ semaphoreValue' = IF served = {} THEN semaphoreValue ELSE semaphoreValue - 1
          /\ continuations' = resumedLater(continuations, served)
          /\ callerState' = [d \in Callers |->
                               IF d \in served THEN "acquired"
                               ELSE IF d = c THEN "waiting" ELSE callerState[d]]
    /\ UNCHANGED <<config, wallets, availableWallets, callerWallet, walletsAvailable>>

\* availableWallets.shift(): the account handed to the caller
shifted(deque) == Head(deque)
\* the head read without being taken off the deque
afterShift_peek(deque) == deque
\* and what it leaves in the deque
afterShift(deque) == Tail(deque)

\* getWallet after its await
getWallet_resume(c) ==
    /\ callerState[c] = "acquired"
    /\ continuations # <<>> /\ Head(continuations) = c
    /\ IF availableWallets = <<>>
       THEN \* semaphore.release(), then the throw
            LET served == dispatched(semaphoreValue + 1, semaphoreQueue)
            IN /\ semaphoreQueue' = IF served = {} THEN semaphoreQueue
                                    ELSE Tail(semaphoreQueue)
               /\ semaphoreValue' = IF served = {} THEN semaphoreValue + 1
                                    ELSE semaphoreValue
               /\ continuations' = resumedLater(Tail(continuations), served)
               /\ callerState' = [d \in Callers |->
                                    IF d = c THEN "failed"
                                    ELSE IF d \in served THEN "acquired"
                                    ELSE callerState[d]]
               /\ UNCHANGED <<availableWallets, callerWallet, walletsAvailable>>
       ELSE /\ callerWallet' = [callerWallet EXCEPT ![c] = shifted(availableWallets)]
            /\ availableWallets' = afterShift(availableWallets)
            /\ walletsAvailable' = <<Len(availableWallets')>>
            /\ callerState' = [callerState EXCEPT ![c] = "holding"]
            /\ continuations' = Tail(continuations)
            /\ UNCHANGED <<semaphoreValue, semaphoreQueue>>
    /\ UNCHANGED <<config, wallets>>

\* the account put at the head of the deque
pushed_unshift(deque, wallet) ==
    IF wallet \in Range(deque) THEN deque ELSE <<wallet>> \o deque

\* the deque after `if (!availableWallets.includes(wallet)) push(wallet)`
pushed(deque, wallet) ==
    IF wallet \in Range(deque) THEN deque ELSE Append(deque, wallet)

\* getAllWallets(): a copy of the closure's pool
getAllWallets == wallets

\* a pushWallet that leaves the metric as it was
pushWallet_noMetric(c, wallet) ==
    /\ availableWallets' = pushed(availableWallets, wallet)
    /\ LET served == dispatched(semaphoreValue + 1, semaphoreQueue)
       IN /\ semaphoreQueue' = IF served = {} THEN semaphoreQueue ELSE Tail(semaphoreQueue)
          /\ semaphoreValue' = IF served = {} THEN semaphoreValue + 1 ELSE semaphoreValue
          /\ continuations' = resumedLater(continuations, served)
          /\ callerState' = [d \in Callers |->
                               IF d = c THEN "idle"
                               ELSE IF d \in served THEN "acquired"
                               ELSE callerState[d]]
    /\ callerWallet' = [callerWallet EXCEPT ![c] = "none"]
    /\ UNCHANGED <<config, wallets, walletsAvailable>>
\* pushWallet(wallet) by the caller c
pushWallet(c, wallet) ==
    /\ availableWallets' = pushed(availableWallets, wallet)
    /\ LET served == dispatched(semaphoreValue + 1, semaphoreQueue)
       IN /\ semaphoreQueue' = IF served = {} THEN semaphoreQueue ELSE Tail(semaphoreQueue)
          /\ semaphoreValue' = IF served = {} THEN semaphoreValue + 1 ELSE semaphoreValue
          /\ continuations' = resumedLater(continuations, served)
          /\ callerState' = [d \in Callers |->
                               IF d = c THEN "idle"
                               ELSE IF d \in served THEN "acquired"
                               ELSE callerState[d]]
    /\ callerWallet' = [callerWallet EXCEPT ![c] = "none"]
    /\ walletsAvailable' = <<Len(availableWallets')>>
    /\ UNCHANGED <<config, wallets>>

\* a caller gives back the account it got from getWallet
returnWallet(c) ==
    /\ callerState[c] = "holding"
    /\ pushWallet(c, callerWallet[c])

(***************************************************************************)
(* The shared sender manager: the wallet addresses wait in a list of an    *)
(* external store that several bundler processes pop from and push to.     *)
(***************************************************************************)
Processes == {"p1", "p2"}

\* the bundler process a caller runs in
processOf(c) == IF c = "c3" THEN "p2" ELSE "p1"

\* w.address
address(wallet) ==
    CASE wallet = "w1" -> "0x1"
      [] wallet = "w2" -> "0x2"
      [] wallet = "w3" -> "0x3"

\* a lookup that takes the first account whatever its address
find_first(pool, walletAddress) ==
    IF pool = <<>> THEN "undefined" ELSE pool[1]

\* wallets.find((w) => w.address === walletAddress), "undefined" when none
find(pool, walletAddress) ==
    IF \E i \in 1..Len(pool) : address(pool[i]) = walletAddress
    THEN pool[CHOOSE i \in 1..Len(pool) :
                  /\ address(pool[i]) = walletAddress
                  /\ \A j \in 1..(i - 1) : address(pool[j]) # walletAddress]
    ELSE "undefined"

VARIABLES
    \* the list "sender-manager" of the store, head first
    redisList,
    \* each process: "down", "counted" (llen answered) or "up" (manager made)
    processStage,
    \* what llen answered to the createRedisQueue of each process
    hasElements,
    \* the walletAddress of each caller's polling loop ("null" for null)
    walletAddress,
    \* the pool read by the second process from its own configuration (the
    \* variable wallets is the pool of the first)
    peerWallets

sharedVars == <<redisList, processStage, hasElements, walletAddress, peerWallets>>

\* the wallets of the manager of process p
walletsOf(p) == IF p = "p1" THEN wallets ELSE peerWallets

\* the list commands the queue uses
llen(list) == Len(list)
RECURSIVE lpush(_, _)
lpush(list, entries) ==
    IF entries = <<>> THEN list ELSE lpush(<<Head(entries)>> \o list, Tail(entries))
rpush(list, entry) == Append(list, entry)
rpop(list) == IF list = <<>> THEN "null" ELSE list[Len(list)]
\* the pop of a queue that hands out the oldest entry of its pushes
afterRpop(list) == IF list = <<>> THEN list ELSE SubSeq(list, 1, Len(list) - 1)

\* no process has made a shared manager
NoSharedManager ==
    /\ redisList = <<>>
    /\ processStage = [p \in Processes |-> "down"]
    /\ hasElements = [p \in Processes |-> 0]
    /\ walletAddress = [c \in Callers |-> "null"]
    /\ peerWallets = <<>>

\* the state two processes start createRedisSenderManager from, the first
\* configured by cfg and the second by peer: each pool is read from the
\* configuration of its process, the list of the store is empty, every
\* process is still down
createRedisSenderManagers(cfg, peer) ==
    /\ config = cfg
    /\ wallets = getAvailableWallets(config)
    /\ availableWallets = <<>>
    /\ semaphoreValue = 0
    /\ semaphoreQueue = <<>>
    /\ continuations = <<>>
    /\ callerState = [c \in Callers |-> "idle"]
    /\ callerWallet = [c \in Callers |-> "none"]
    /\ walletsAvailable = <<>>
    /\ redisList = <<>>
    /\ processStage = [p \in Processes |-> "down"]
    /\ hasElements = [p \in Processes |-> 0]
    /\ walletAddress = [c \in Callers |-> "null"]
    /\ peerWallets = getAvailableWallets(peer)

\* the processes of one deployment run the same configuration
createRedisSenderManager(cfg) == createRedisSenderManagers(cfg, cfg)

\* createRedisQueue of process p, up to the answer of llen
createRedisQueue_llen(p) ==
    /\ processStage[p] = "down"
    /\ hasElements' = [hasElements EXCEPT ![p] = llen(redisList)]
    /\ processStage' = [processStage EXCEPT ![p] = "counted"]
    /\ UNCHANGED <<redisList, walletAddress, peerWallets, senderVars>>

\* and after it: the addresses of the pool are pushed when llen answered 0
createRedisQueue_lpush(p) ==
    /\ processStage[p] = "counted"
    /\ redisList' = IF hasElements[p] = 0
                    THEN lpush(redisList,
                               [i \in 1..Len(walletsOf(p)) |-> address(walletsOf(p)[i])])
                    ELSE redisList
    /\ processStage' = [processStage EXCEPT ![p] = "up"]
    /\ UNCHANGED <<hasElements, walletAddress, peerWallets, senderVars>>

\* getWallet of the shared manager: entry
redisGetWallet_call(c) ==
    /\ processStage[processOf(c)] = "up"
    /\ callerState[c] = "idle"
    /\ callerState' = [callerState EXCEPT ![c] = "polling"]
    /\ walletAddress' = [walletAddress EXCEPT ![c] = "null"]
    /\ UNCHANGED <<redisList, processStage, hasElements, peerWallets, config, wallets,
                   availableWallets,
                   semaphoreValue, semaphoreQueue, continuations, callerWallet,
                   walletsAvailable>>

\* walletAddress = await redisQueue.pop()
redisGetWallet_pop(c) ==
    /\ callerState[c] = "polling"
    /\ walletAddress' = [walletAddress EXCEPT ![c] = rpop(redisList)]
    /\ redisList' = afterRpop(redisList)
    /\ callerState' = [callerState EXCEPT ![c] = "delaying"]
    /\ UNCHANGED <<processStage, hasElements, peerWallets, config, wallets, availableWallets,
                   semaphoreValue, semaphoreQueue, continuations, callerWallet,
                   walletsAvailable>>

\* await delay(100), then the loop test and the lookup of the account
redisGetWallet_resume(c) ==
    /\ callerState[c] = "delaying"
    /\ IF walletAddress[c] = "null"
       THEN /\ callerState' = [callerState EXCEPT ![c] = "polling"]
            /\ UNCHANGED callerWallet
       ELSE LET wallet == find(walletsOf(processOf(c)), walletAddress[c])
            IN IF wallet = "undefined"
               THEN /\ callerState' = [callerState EXCEPT ![c] = "failed"]
                    /\ UNCHANGED callerWallet
               ELSE /\ callerState' = [callerState EXCEPT ![c] = "holding"]
                    /\ callerWallet' = [callerWallet EXCEPT ![c] = wallet]
    /\ UNCHANGED <<sharedVars, config, wallets, availableWallets, semaphoreValue,
                   semaphoreQueue, continuations, walletsAvailable>>

\* pushWallet(wallet) of the shared manager by the caller c, taken at the
\* moment the store runs the rpush
redisPushWallet(c, wallet) ==
    /\ processStage[processOf(c)] = "up"
    /\ redisList' = rpush(redisList, address(wallet))
    /\ callerState' = [callerState EXCEPT ![c] = "idle"]
    /\ callerWallet' = [callerWallet EXCEPT ![c] = "none"]
    /\ UNCHANGED <<processStage, hasElements, walletAddress, peerWallets, config, wallets,
                   availableWallets, semaphoreValue, semaphoreQueue, continuations,
                   walletsAvailable>>

\* a caller gives back the account it got from the shared manager
redisReturnWallet(c) ==
    /\ callerState[c] = "holding"
    /\ redisPushWallet(c, callerWallet[c])

(***************************************************************************)
(* What the callers of a sender manager remember of its pushes.            *)
(***************************************************************************)
VARIABLES
    \* the accounts given back by pushWallet and not leased since, oldest first
    pushedBack,
    \* for a caller that waited in getWallet: the account whose pushWallet let
    \* it through ("none" for a caller that did not wait)
    unblockedBy,
    \* the latest account handed out by getWallet, and the accounts that had
    \* been given back and not leased since when it was handed out
    lastLease,
    \* the callers of the local getWallet whose call has not settled yet, in
    \* the order of their calls
    arrivals

leaseVars == <<pushedBack, unblockedBy, lastLease, arrivals>>

NoLease == [wallet |-> "none", from |-> <<>>]

InitLeases ==
    /\ pushedBack = <<>>
    /\ unblockedBy = [c \in Callers |-> "none"]
    /\ lastLease = NoLease
    /\ arrivals = <<>>

Without(list, wallet) == SelectSeq(list, LAMBDA w : w # wallet)

\* bookkeeping of a step that is neither a lease nor a push
noteNothing == UNCHANGED leaseVars

\* bookkeeping of a call of the local getWallet by c
noteArrival(c) ==
    /\ arrivals' = Append(arrivals, c)
    /\ UNCHANGED <<pushedBack, unblockedBy, lastLease>>

\* bookkeeping of the step of the local getWallet that may hand an account to c
noteLease(c) ==
    /\ arrivals' = Without(arrivals, c)
    /\ pushedBack' = IF callerState'[c] = "holding"
                     THEN Without(pushedBack, callerWallet'[c])
                     ELSE pushedBack
    /\ lastLease' = IF callerState'[c] = "holding"
                    THEN [wallet |-> callerWallet'[c], from |-> pushedBack]
                    ELSE lastLease
    /\ UNCHANGED unblockedBy

\* bookkeeping of a pop of the shared getWallet: the address leaves the list
notePop(c) ==
    /\ pushedBack' = IF walletAddress'[c] = "null" THEN pushedBack
                     ELSE Without(pushedBack, find(ExecutorPrivateKeys, walletAddress'[c]))
    /\ lastLease' = IF walletAddress'[c] = "null" THEN lastLease
                    ELSE [wallet |-> find(ExecutorPrivateKeys, walletAddress'[c]),
                          from |-> pushedBack]
    /\ UNCHANGED <<unblockedBy, arrivals>>

\* bookkeeping of pushWallet(wallet) by c
notePush(c, wallet) ==
    /\ pushedBack' = Append(Without(pushedBack, wallet), wallet)
    /\ unblockedBy' = [d \in Callers |->
                          IF d = c THEN "none"
                          ELSE IF callerState[d] = "waiting" /\ callerState'[d] = "acquired"
                          THEN wallet
                          ELSE unblockedBy[d]]
    /\ UNCHANGED <<lastLease, arrivals>>

(***************************************************************************)
(* Gas prices: the fee sources, their fallbacks and the bump.              *)
(***************************************************************************)
maxBigInt(a, b) == IF a > b THEN a ELSE b
minBigInt(a, b) == IF a < b THEN a ELSE b

\* a / b of two bigints: the quotient rounded towards zero
bigintDiv(a, b) ==
    IF (a >= 0) = (b > 0)
    THEN (IF a >= 0 THEN a ELSE -a) \div (IF b > 0 THEN b ELSE -b)
    ELSE -((IF a >= 0 THEN a ELSE -a) \div (IF b > 0 THEN b ELSE -b))

\* parseGwei of a decimal with one digit after the point
parseGwei(whole, tenths) == whole * WeiPerGwei + (tenths * WeiPerGwei) \div 10

MIN_POLYGON_GAS_PRICE == parseGwei(31, 0)
MIN_MUMBAI_GAS_PRICE == parseGwei(1, 0)

\* config.publicClient.chain.id, by the name of the chain
Chains == {"polygon", "polygonMumbai", "celo", "celoAlfajores", "dfk", "avalanche", "other"}

GasPriceParameters(maxFeePerGas, maxPriorityFeePerGas) ==
    [maxFeePerGas |-> maxFeePerGas, maxPriorityFeePerGas |-> maxPriorityFeePerGas]

\* a floor table without the Mumbai row
getDefaultGasFee_polygonOnly(cfg) ==
    IF cfg.chain = "polygon" THEN MIN_POLYGON_GAS_PRICE ELSE 0

getDefaultGasFee(cfg) ==
    CASE cfg.chain = "polygon" -> MIN_POLYGON_GAS_PRICE
      [] cfg.chain = "polygonMumbai" -> MIN_MUMBAI_GAS_PRICE
      [] OTHER -> 0

\* a bump that forgets the two floors of DFK and Avalanche
bumpTheGasPrice_noFloors(cfg, gasPrice) ==
    LET maxPriorityFeePerGas ==
            maxBigInt(gasPrice.maxPriorityFeePerGas, getDefaultGasFee(cfg))
        maxFeePerGas == maxBigInt(gasPrice.maxFeePerGas, maxPriorityFeePerGas)
        result ==
            GasPriceParameters(bigintDiv(maxFeePerGas * cfg.gasPriceBump, 100),
                               bigintDiv(maxPriorityFeePerGas * cfg.gasPriceBump, 100))
    IN IF cfg.chain \in {"celo", "celoAlfajores"}
       THEN LET maxFee == maxBigInt(result.maxFeePerGas, result.maxPriorityFeePerGas)
            IN GasPriceParameters(maxFee, maxFee)
       ELSE result

bumpTheGasPrice(cfg, gasPrice) ==
    LET bumpAmount == cfg.gasPriceBump
        maxPriorityFeePerGas ==
            maxBigInt(gasPrice.maxPriorityFeePerGas, getDefaultGasFee(cfg))
        maxFeePerGas == maxBigInt(gasPrice.maxFeePerGas, maxPriorityFeePerGas)
        result ==
            GasPriceParameters(bigintDiv(maxFeePerGas * bumpAmount, 100),
                               bigintDiv(maxPriorityFeePerGas * bumpAmount, 100))
    IN IF cfg.chain \in {"celo", "celoAlfajores"}
       THEN LET maxFee == maxBigInt(result.maxFeePerGas, result.maxPriorityFeePerGas)
            IN GasPriceParameters(maxFee, maxFee)
       ELSE IF cfg.chain = "dfk"
       THEN GasPriceParameters(maxBigInt(5 * WeiPerGwei, result.maxFeePerGas),
                               maxBigInt(5 * WeiPerGwei, result.maxPriorityFeePerGas))
       ELSE IF cfg.chain = "avalanche"
       THEN GasPriceParameters(maxBigInt(parseGwei(1, 5), result.maxFeePerGas),
                               maxBigInt(parseGwei(1, 5), result.maxPriorityFeePerGas))
       ELSE result

\* The answers of the chain client and of the gas station at the time of one
\* refresh. ok = FALSE is a call that fails; an optional field is <<>> when
\* undefined and <<v>> when v. A fee history holds, for each block, the
\* rewards at the percentiles asked for.
FeeAnswers == {0, 100, 400}
OptionalFees == {<<>>} \cup {<<v>> : v \in FeeAnswers}
Failed == [ok |-> FALSE]

GasStationAnswers ==
    {Failed} \cup {[ok |-> TRUE, fast |-> GasPriceParameters(500, 400)],
                   [ok |-> TRUE, fast |-> GasPriceParameters(400, 100)]}
LegacyFeeAnswers ==
    {Failed} \cup [ok : {TRUE}, gasPrice : {<<>>, <<100>>, <<400>>}]
FeeEstimates ==
    {Failed} \cup [ok : {TRUE}, maxFeePerGas : OptionalFees,
                   maxPriorityFeePerGas : OptionalFees]
GasPriceAnswers == {Failed} \cup [ok : {TRUE}, gasPrice : {100}]
FeeHistoryAnswers ==
    {Failed} \cup [ok : {TRUE}, reward : {<<>>, << << <<0>>, <<0>> >> >>,
                                          << << <<300>>, <<900>> >> >>}]
BlockAnswers ==
    {Failed} \cup [ok : {TRUE}, baseFeePerGas : {0, 80}, gasUsed : {2, 8},
                   gasLimit : {10}]

RpcAnswers ==
    [gasStation : GasStationAnswers,
     estimateFeesPerGasLegacy : LegacyFeeAnswers,
     estimateFeesPerGas : FeeEstimates,
     getGasPrice : GasPriceAnswers,
     getFeeHistory : FeeHistoryAnswers,
     getBlock : BlockAnswers]

\* what an async function of the manager ends with: a pair, or an exception
Returned(gasPrice) == [thrown |-> FALSE, gasPrice |-> gasPrice]
Thrown == [thrown |-> TRUE, gasPrice |-> GasPriceParameters(0, 0)]

\* null when the fetch or the parse fails
getPolygonGasPriceParameters(rpc) ==
    IF rpc.gasStation.ok THEN <<rpc.gasStation.fast>> ELSE <<>>

getLegacyTransactionGasPrice(rpc) ==
    LET gasPrice == IF rpc.estimateFeesPerGasLegacy.ok
                    THEN rpc.estimateFeesPerGasLegacy.gasPrice ELSE <<>>
    IN IF gasPrice = <<>>
       THEN IF rpc.getGasPrice.ok
            THEN Returned(GasPriceParameters(rpc.getGasPrice.gasPrice,
                                             rpc.getGasPrice.gasPrice))
            ELSE Thrown
       ELSE Returned(GasPriceParameters(gasPrice[1], gasPrice[1]))

RECURSIVE sumOfFirst(_)
sumOfFirst(reward) ==
    IF reward = <<>> THEN 0 ELSE Head(reward)[1] + sumOfFirst(Tail(reward))

\* the answer is <<>> when getFeeHistory fails
getFallBackMaxPriorityFeePerGas(rpc, gasPrice) ==
    IF ~rpc.getFeeHistory.ok THEN <<>>
    ELSE IF rpc.getFeeHistory.reward = <<>> THEN <<gasPrice>>
    ELSE <<minBigInt(bigintDiv(sumOfFirst(rpc.getFeeHistory.reward[1]), 10), gasPrice)>>

\* the answer is <<>> when getBlock, or the getGasPrice it needs, fails
getNextBaseFee(rpc) ==
    IF ~rpc.getBlock.ok THEN <<>>
    ELSE IF rpc.getBlock.baseFeePerGas = 0 /\ ~rpc.getGasPrice.ok THEN <<>>
    ELSE LET block == rpc.getBlock
             currentBaseFeePerGas == IF block.baseFeePerGas # 0 THEN block.baseFeePerGas
                                     ELSE rpc.getGasPrice.gasPrice
             currentGasUsed == block.gasUsed
             gasTarget == bigintDiv(block.gasLimit, 2)
             gasUsedDelta == currentGasUsed - gasTarget
         IN IF currentGasUsed = gasTarget THEN <<currentBaseFeePerGas>>
            ELSE IF currentGasUsed > gasTarget
            THEN <<currentBaseFeePerGas
                     + maxBigInt(bigintDiv(bigintDiv(currentBaseFeePerGas * gasUsedDelta,
                                                     gasTarget), 8), 1)>>
            ELSE <<currentBaseFeePerGas
                     - bigintDiv(bigintDiv(currentBaseFeePerGas * gasUsedDelta,
                                           gasTarget), 8)>>

estimateGasPrice(rpc) ==
    LET fees == rpc.estimateFeesPerGas
        maxFeePerGas0 == IF fees.ok THEN fees.maxFeePerGas ELSE <<>>
        maxPriorityFeePerGas0 == IF fees.ok THEN fees.maxPriorityFeePerGas ELSE <<>>
        maxPriorityFeePerGas1 ==
            IF maxPriorityFeePerGas0 = <<>>
            THEN getFallBackMaxPriorityFeePerGas(
                     rpc, IF maxFeePerGas0 = <<>> THEN 0 ELSE maxFeePerGas0[1])
            ELSE maxPriorityFeePerGas0
    IN IF maxPriorityFeePerGas1 = <<>> THEN Thrown
       ELSE LET nextBaseFee == getNextBaseFee(rpc)
                maxFeePerGas1 ==
                    IF maxFeePerGas0 # <<>> THEN maxFeePerGas0
                    ELSE IF nextBaseFee = <<>> THEN <<>>
                    ELSE <<nextBaseFee[1] + maxPriorityFeePerGas1[1]>>
            IN IF maxFeePerGas1 = <<>> THEN Thrown
               ELSE Returned(GasPriceParameters(
                        maxFeePerGas1[1],
                        IF maxPriorityFeePerGas1[1] = 0
                        THEN bigintDiv(maxFeePerGas1[1], 200)
                        ELSE maxPriorityFeePerGas1[1]))

\* the fee source innerGetGasPrice takes, before the bump
feeSource(cfg, rpc) ==
    IF cfg.chain \in {"polygon", "polygonMumbai"}
           /\ getPolygonGasPriceParameters(rpc) # <<>>
    THEN "gasStation"
    ELSE IF cfg.legacyTransactions THEN "legacy" ELSE "eip1559"

\* the pair it hands to bumpTheGasPrice, or the exception of its source
estimated(cfg, rpc) ==
    CASE feeSource(cfg, rpc) = "gasStation" ->
             Returned(getPolygonGasPriceParameters(rpc)[1])
      [] feeSource(cfg, rpc) = "legacy" -> getLegacyTransactionGasPrice(rpc)
      [] feeSource(cfg, rpc) = "eip1559" -> estimateGasPrice(rpc)

innerGetGasPrice(cfg, rpc) ==
    LET estimate == estimated(cfg, rpc)
    IN IF estimate.thrown THEN Thrown
       ELSE LET gasPrice == bumpTheGasPrice(cfg, estimate.gasPrice)
                \* the two locals keep 0 unless the EIP-1559 estimate set them
                maxFeePerGas == IF feeSource(cfg, rpc) = "eip1559"
                                THEN estimate.gasPrice.maxFeePerGas ELSE 0
                maxPriorityFeePerGas == IF feeSource(cfg, rpc) = "eip1559"
                                        THEN estimate.gasPrice.maxPriorityFeePerGas ELSE 0
            IN Returned(GasPriceParameters(
                   maxBigInt(gasPrice.maxFeePerGas, maxFeePerGas),
                   maxBigInt(gasPrice.maxPriorityFeePerGas, maxPriorityFeePerGas)))

(***************************************************************************)
(* One quote: innerGetGasPrice run once under a configuration and the      *)
(* answers of the chain.                                                   *)
(***************************************************************************)
GasPriceBumps == {100, 120}

QuoteConfigs == [chain : Chains, gasPriceBump : GasPriceBumps,
                 legacyTransactions : BOOLEAN]

VARIABLES
    \* the configuration and the answers of the calls of this quote
    quoteConfig,
    quoteRpc,
    \* the bumpTheGasPrice call of the quote: <<>> before, or when the source
    \* threw; else <<[gasPrice |-> its argument, result |-> what it returned]>>
    bumpCall,
    \* what innerGetGasPrice ended with: <<>> before, else <<outcome>>
    quote

quoteVars == <<quoteConfig, quoteRpc, bumpCall, quote>>

InitQuote ==
    /\ quoteConfig \in QuoteConfigs
    /\ quoteRpc \in RpcAnswers
    /\ bumpCall = <<>>
    /\ quote = <<>>

\* the quote a specification of another part of the core leaves aside
NoQuote ==
    /\ quoteConfig = [chain |-> "other", gasPriceBump |-> 100,
                      legacyTransactions |-> FALSE]
    /\ quoteRpc = CHOOSE rpc \in RpcAnswers : TRUE
    /\ bumpCall = <<>>
    /\ quote = <<>>

innerGetGasPrice_run ==
    /\ quote = <<>>
    /\ quote' = <<innerGetGasPrice(quoteConfig, quoteRpc)>>
    /\ bumpCall' = LET estimate == estimated(quoteConfig, quoteRpc)
                   IN IF estimate.thrown THEN <<>>
                      ELSE <<[gasPrice |-> estimate.gasPrice,
                              result |-> bumpTheGasPrice(quoteConfig, estimate.gasPrice)]>>
    /\ UNCHANGED <<quoteConfig, quoteRpc>>

(***************************************************************************)
(* The gas price manager: the three queues, the refreshes that fill them   *)
(* and the calls that read them.                                           *)
(***************************************************************************)
\* the step of the clock, and the last instant a run reaches (milliseconds)
ClockStep == 500
MaxClock == 2000

\* the span within which a refresh overwrites the last entry of a queue
SliceMs == 1000

GasConfigs ==
    [chain : {"other"}, gasPriceBump : {100}, legacyTransactions : BOOLEAN,
     gasPriceRefreshInterval : {0, 1}, chainType : {"default", "hedera"},
     gasPriceExpiry : {1, 2}]

\* the answers a refresh of the manager can get
RefreshAnswers ==
    [gasStation : {Failed},
     estimateFeesPerGasLegacy : {Failed, [ok |-> TRUE, gasPrice |-> <<100>>],
                                 [ok |-> TRUE, gasPrice |-> <<400>>]},
     estimateFeesPerGas : {Failed,
                           [ok |-> TRUE, maxFeePerGas |-> <<400>>,
                            maxPriorityFeePerGas |-> <<0>>],
                           [ok |-> TRUE, maxFeePerGas |-> <<100>>,
                            maxPriorityFeePerGas |-> <<100>>]},
     getGasPrice : {Failed},
     getFeeHistory : {Failed},
     getBlock : {Failed}]

\* the refreshes that can be in flight together: the one of the construction,
\* two of the timer and the one of a getGasPrice call
RefreshTasks == {"create", "timer1", "timer2", "caller"}

\* the fees validateGasPrice is asked about
ValidatedGasPrices ==
    {GasPriceParameters(10, 0), GasPriceParameters(100, 2),
     GasPriceParameters(100, 100), GasPriceParameters(400, 10)}

VARIABLES
    \* the AltoConfig of the manager
    gasConfig,
    \* Date.now()
    now,
    \* "creating" until createGasPriceManager returns ("running") or rejects
    \* ("failed")
    managerStage,
    \* the next instant the setInterval callback is due
    nextFire,
    \* state.queue*: sequences of [timestamp, value]
    queueBaseFeePerGas,
    queueMaxFeePerGas,
    queueMaxPriorityFeePerGas,
    \* the tasks whose updateGasPrice awaits innerGetGasPrice
    refreshing,
    \* the tasks whose updateBaseFee awaits getBlock
    fetchingBaseFee,
    \* the getGasPrice or validateGasPrice call in progress, or the last one
    apiCall,
    \* <<the pair of the most recent refresh that wrote to a queue>>
    lastStored

gasVars == <<gasConfig, now, managerStage, nextFire, queueBaseFeePerGas,
             queueMaxFeePerGas, queueMaxPriorityFeePerGas, refreshing,
             fetchingBaseFee, apiCall, lastStored>>

NoCall ==
    [method |-> "none", stage |-> "idle", gasPrice |-> GasPriceParameters(0, 0),
     lowestMaxFeePerGas |-> 0, outcome |-> "none", minimum |-> 0, baseFeePerGas |-> 0]

\* createGasPriceManager up to its Promise.all
createGasPriceManager(cfg) ==
    /\ gasConfig = cfg
    /\ now = 0
    /\ managerStage = "creating"
    /\ nextFire = 0
    /\ queueBaseFeePerGas = <<>>
    /\ queueMaxFeePerGas = <<>>
    /\ queueMaxPriorityFeePerGas = <<>>
    /\ refreshing = {"create"}
    /\ fetchingBaseFee = IF cfg.legacyTransactions = FALSE THEN {"create"} ELSE {}
    /\ apiCall = NoCall
    /\ lastStored = <<>>

InitGas == \E cfg \in GasConfigs : createGasPriceManager(cfg)

\* no manager: what a specification of another part of the core starts with
NoGasManager ==
    /\ gasConfig = CHOOSE cfg \in GasConfigs : TRUE
    /\ now = 0
    /\ managerStage = "none"
    /\ nextFire = 0
    /\ queueBaseFeePerGas = <<>>
    /\ queueMaxFeePerGas = <<>>
    /\ queueMaxPriorityFeePerGas = <<>>
    /\ refreshing = {}
    /\ fetchingBaseFee = {}
    /\ apiCall = NoCall
    /\ lastStored = <<>>

last(queue) == queue[Len(queue)]

\* the queue after queue.shift(), which leaves an empty array as it is
evicted(queue) == IF queue = <<>> THEN <<>> ELSE Tail(queue)

\* the new entry appended first, the oldest entry evicted afterwards
saveMaxFeePerGas_pushThenShift(queue, maxQueueSize, maxFeePerGas, timestamp) ==
    LET entry == [timestamp |-> timestamp, maxFeePerGas |-> maxFeePerGas]
    IN IF queue = <<>> \/ timestamp - last(queue).timestamp >= SliceMs
       THEN IF Len(queue) + 1 > maxQueueSize THEN evicted(Append(queue, entry))
            ELSE Append(queue, entry)
       ELSE IF maxFeePerGas < last(queue).maxFeePerGas
       THEN [queue EXCEPT ![Len(queue)] = entry]
       ELSE queue

\* the queue after saveMaxFeePerGas
saveMaxFeePerGas(queue, maxQueueSize, maxFeePerGas, timestamp) ==
    IF queue = <<>> \/ timestamp - last(queue).timestamp >= SliceMs
    THEN Append(IF Len(queue) >= maxQueueSize THEN evicted(queue) ELSE queue,
                [timestamp |-> timestamp, maxFeePerGas |-> maxFeePerGas])
    ELSE IF maxFeePerGas < last(queue).maxFeePerGas
    THEN [queue EXCEPT ![Len(queue)] =
              [timestamp |-> timestamp, maxFeePerGas |-> maxFeePerGas]]
    ELSE queue

\* a save that never evicts
saveMaxPriorityFeePerGas_unbounded(queue, maxQueueSize, maxPriorityFeePerGas, timestamp) ==
    IF queue = <<>> \/ timestamp - last(queue).timestamp >= SliceMs
    THEN Append(queue,
                [timestamp |-> timestamp, maxPriorityFeePerGas |-> maxPriorityFeePerGas])
    ELSE IF maxPriorityFeePerGas < last(queue).maxPriorityFeePerGas
    THEN [queue EXCEPT ![Len(queue)] =
              [timestamp |-> timestamp, maxPriorityFeePerGas |-> maxPriorityFeePerGas]]
    ELSE queue
\* the queue after saveMaxPriorityFeePerGas
saveMaxPriorityFeePerGas(queue, maxQueueSize, maxPriorityFeePerGas, timestamp) ==
    IF queue = <<>> \/ timestamp - last(queue).timestamp >= SliceMs
    THEN Append(IF Len(queue) >= maxQueueSize THEN evicted(queue) ELSE queue,
                [timestamp |-> timestamp, maxPriorityFeePerGas |-> maxPriorityFeePerGas])
    ELSE IF maxPriorityFeePerGas < last(queue).maxPriorityFeePerGas
    THEN [queue EXCEPT ![Len(queue)] =
              [timestamp |-> timestamp, maxPriorityFeePerGas |-> maxPriorityFeePerGas]]
    ELSE queue

\* a save that keeps the latest fee of a slice, lower or not
saveBaseFeePerGas_latest(queue, maxQueueSize, baseFeePerGas, timestamp) ==
    IF queue = <<>> \/ timestamp - last(queue).timestamp >= SliceMs
    THEN Append(IF Len(queue) >= maxQueueSize THEN evicted(queue) ELSE queue,
                [timestamp |-> timestamp, baseFeePerGas |-> baseFeePerGas])
    ELSE [queue EXCEPT ![Len(queue)] =
              [timestamp |-> timestamp, baseFeePerGas |-> baseFeePerGas]]
\* the queue after saveBaseFeePerGas
saveBaseFeePerGas(queue, maxQueueSize, baseFeePerGas, timestamp) ==
    IF queue = <<>> \/ timestamp - last(queue).timestamp >= SliceMs
    THEN Append(IF Len(queue) >= maxQueueSize THEN evicted(queue) ELSE queue,
                [timestamp |-> timestamp, baseFeePerGas |-> baseFeePerGas])
    ELSE IF baseFeePerGas < last(queue).baseFeePerGas
    THEN [queue EXCEPT ![Len(queue)] =
              [timestamp |-> timestamp, baseFeePerGas |-> baseFeePerGas]]
    ELSE queue

RECURSIVE highest(_)
\* the reduce with maxBigInt over the values of a queue
highest(values) ==
    IF Len(values) = 1 THEN values[1]
    ELSE maxBigInt(last(values), highest(SubSeq(values, 1, Len(values) - 1)))

\* the aggregate getMaxBaseFeePerGas returns
getMaxBaseFeePerGas(queue) ==
    highest([i \in 1..Len(queue) |-> queue[i].baseFeePerGas])

RECURSIVE lowest(_)
\* the reduce with minBigInt over the values of a queue
lowest(values) ==
    IF Len(values) = 1 THEN values[1]
    ELSE minBigInt(last(values), lowest(SubSeq(values, 1, Len(values) - 1)))

\* the last value of the queue instead of its minimum
getMinMaxFeePerGas_last(queue) == last(queue).maxFeePerGas

getMinMaxFeePerGas(queue) ==
    lowest([i \in 1..Len(queue) |-> queue[i].maxFeePerGas])

getMinMaxPriorityFeePerGas(queue) ==
    lowest([i \in 1..Len(queue) |-> queue[i].maxPriorityFeePerGas])

\* validateGasPrice once both minima are read: the two comparisons
validated(call, read) ==
    LET hedera == gasConfig.chainType = "hedera"
        lowestMaxFeePerGas ==
            IF hedera THEN bigintDiv(call.lowestMaxFeePerGas, WeiPerGwei)
            ELSE call.lowestMaxFeePerGas
        lowestMaxPriorityFeePerGas ==
            IF hedera THEN bigintDiv(read, WeiPerGwei) ELSE read
    IN IF call.gasPrice.maxFeePerGas < lowestMaxFeePerGas
       THEN [call EXCEPT !.stage = "done",
                         !.outcome = "maxFeePerGas must be at least",
                         !.minimum = lowestMaxFeePerGas]
       ELSE IF call.gasPrice.maxPriorityFeePerGas < lowestMaxPriorityFeePerGas
       THEN [call EXCEPT !.stage = "done",
                         !.outcome = "maxPriorityFeePerGas must be at least",
                         !.minimum = lowestMaxPriorityFeePerGas]
       ELSE [call EXCEPT !.stage = "done", !.outcome = "ok"]

\* the call ended by the read of an entry of an empty queue
TypeError(call) == [call EXCEPT !.stage = "done", !.outcome = "TypeError"]

\* Date.now() moves on
clock_tick ==
    /\ now + ClockStep <= MaxClock
    /\ now' = now + ClockStep
    /\ UNCHANGED <<gasConfig, managerStage, nextFire, queueBaseFeePerGas,
                   queueMaxFeePerGas, queueMaxPriorityFeePerGas, refreshing,
                   fetchingBaseFee, apiCall, lastStored>>

\* a refresh of an overlapping timer task that records its maxFeePerGas alone
updateGasPrice_resume_partial(task, rpc) ==
    /\ task \in refreshing
    /\ refreshing' = refreshing \ {task}
    /\ LET answer == innerGetGasPrice(gasConfig, rpc)
           gasPrice == answer.gasPrice
           timestamp == now
       IN /\ IF answer.thrown
             THEN UNCHANGED <<queueMaxFeePerGas, queueMaxPriorityFeePerGas, lastStored>>
             ELSE /\ queueMaxFeePerGas' =
                         saveMaxFeePerGas(queueMaxFeePerGas, gasConfig.gasPriceExpiry,
                                          gasPrice.maxFeePerGas, timestamp)
                  /\ queueMaxPriorityFeePerGas' =
                         IF task = "timer2" THEN queueMaxPriorityFeePerGas
                         ELSE saveMaxPriorityFeePerGas(queueMaxPriorityFeePerGas,
                                                       gasConfig.gasPriceExpiry,
                                                       gasPrice.maxPriorityFeePerGas,
                                                       timestamp)
                  /\ lastStored' =
                         IF queueMaxFeePerGas' # queueMaxFeePerGas
                                \/ queueMaxPriorityFeePerGas' # queueMaxPriorityFeePerGas
                         THEN <<gasPrice>> ELSE lastStored
          /\ managerStage' = IF task = "create" /\ answer.thrown THEN "failed"
                             ELSE managerStage
          /\ apiCall' =
                 IF task # "caller" THEN apiCall
                 ELSE IF apiCall.method = "getGasPrice"
                 THEN [apiCall EXCEPT !.stage = "done",
                                      !.gasPrice = gasPrice,
                                      !.outcome = IF answer.thrown THEN "rejected"
                                                  ELSE "returned"]
                 \* the refresh a getMin* call of validateGasPrice forced
                 ELSE IF answer.thrown
                 THEN [apiCall EXCEPT !.stage = "done", !.outcome = "rejected"]
                 ELSE IF apiCall.stage = "forcedMaxFeePerGas"
                 THEN [apiCall EXCEPT !.stage = "readMaxFeePerGas",
                                      !.lowestMaxFeePerGas =
                                          getMinMaxFeePerGas(queueMaxFeePerGas')]
                 ELSE validated(apiCall,
                                getMinMaxPriorityFeePerGas(queueMaxPriorityFeePerGas'))
    /\ UNCHANGED <<gasConfig, now, nextFire, queueBaseFeePerGas, fetchingBaseFee>>
\* updateGasPrice from the return of innerGetGasPrice on: the answers are
\* in, the pair is saved under one timestamp and handed to who awaits it
updateGasPrice_resume(task, rpc) ==
    /\ task \in refreshing
    /\ refreshing' = refreshing \ {task}
    /\ LET answer == innerGetGasPrice(gasConfig, rpc)
           gasPrice == answer.gasPrice
           timestamp == now
       IN /\ IF answer.thrown
             THEN UNCHANGED <<queueMaxFeePerGas, queueMaxPriorityFeePerGas, lastStored>>
             ELSE /\ queueMaxFeePerGas' =
                         saveMaxFeePerGas(queueMaxFeePerGas, gasConfig.gasPriceExpiry,
                                          gasPrice.maxFeePerGas, timestamp)
                  /\ queueMaxPriorityFeePerGas' =
                         saveMaxPriorityFeePerGas(queueMaxPriorityFeePerGas,
                                                  gasConfig.gasPriceExpiry,
                                                  gasPrice.maxPriorityFeePerGas, timestamp)
                  /\ lastStored' =
                         IF queueMaxFeePerGas' # queueMaxFeePerGas
                                \/ queueMaxPriorityFeePerGas' # queueMaxPriorityFeePerGas
                         THEN <<gasPrice>> ELSE lastStored
          /\ managerStage' = IF task = "create" /\ answer.thrown THEN "failed"
                             ELSE managerStage
          /\ apiCall' =
                 IF task # "caller" THEN apiCall
                 ELSE IF apiCall.method = "getGasPrice"
                 THEN [apiCall EXCEPT !.stage = "done",
                                      !.gasPrice = gasPrice,
                                      !.outcome = IF answer.thrown THEN "rejected"
                                                  ELSE "returned"]
                 \* the refresh a getMin* call of validateGasPrice forced
                 ELSE IF answer.thrown
                 THEN [apiCall EXCEPT !.stage = "done", !.outcome = "rejected"]
                 ELSE IF apiCall.stage = "forcedMaxFeePerGas"
                 THEN [apiCall EXCEPT !.stage = "readMaxFeePerGas",
                                      !.lowestMaxFeePerGas =
                                          getMinMaxFeePerGas(queueMaxFeePerGas')]
                 ELSE validated(apiCall,
                                getMinMaxPriorityFeePerGas(queueMaxPriorityFeePerGas'))
    /\ UNCHANGED <<gasConfig, now, nextFire, queueBaseFeePerGas, fetchingBaseFee>>

\* updateBaseFee from the return of getBlock on
updateBaseFee_resume(task, block) ==
    /\ task \in fetchingBaseFee
    /\ fetchingBaseFee' = fetchingBaseFee \ {task}
    /\ IF block.ok /\ block.baseFeePerGas # 0
       THEN /\ queueBaseFeePerGas' =
                   saveBaseFeePerGas(queueBaseFeePerGas, gasConfig.gasPriceExpiry,
                                     block.baseFeePerGas, now)
            /\ UNCHANGED managerStage
            /\ apiCall' =
                   IF task # "caller" THEN apiCall
                   ELSE [apiCall EXCEPT
                            !.stage = "done", !.outcome = "returned",
                            !.baseFeePerGas =
                                IF apiCall.method = "getBaseFee" THEN block.baseFeePerGas
                                ELSE getMaxBaseFeePerGas(queueBaseFeePerGas')]
       ELSE /\ managerStage' = IF task = "create" THEN "failed" ELSE managerStage
            /\ UNCHANGED queueBaseFeePerGas
            /\ apiCall' = IF task # "caller" THEN apiCall
                          ELSE [apiCall EXCEPT !.stage = "done", !.outcome = "rejected"]
    /\ UNCHANGED <<gasConfig, now, nextFire, queueMaxFeePerGas,
                   queueMaxPriorityFeePerGas, refreshing, lastStored>>

\* createGasPriceManager after its Promise.all: the timer is set and the
\* manager returned
createGasPriceManager_resume ==
    /\ managerStage = "creating"
    /\ "create" \notin refreshing \cup fetchingBaseFee
    /\ managerStage' = "running"
    /\ nextFire' = now + gasConfig.gasPriceRefreshInterval * 1000
    /\ UNCHANGED <<gasConfig, now, queueBaseFeePerGas, queueMaxFeePerGas,
                   queueMaxPriorityFeePerGas, refreshing, fetchingBaseFee, apiCall,
                   lastStored>>

\* the setInterval callback
setInterval_fire ==
    /\ managerStage = "running"
    /\ gasConfig.gasPriceRefreshInterval > 0
    /\ now >= nextFire
    /\ \E task \in {"timer1", "timer2"} :
          /\ task \notin refreshing \cup fetchingBaseFee
          /\ task = "timer2" => "timer1" \in refreshing \cup fetchingBaseFee
          /\ fetchingBaseFee' = IF gasConfig.legacyTransactions = FALSE
                                THEN fetchingBaseFee \cup {task} ELSE fetchingBaseFee
          /\ refreshing' = refreshing \cup {task}
    /\ nextFire' = nextFire + gasConfig.gasPriceRefreshInterval * 1000
    /\ UNCHANGED <<gasConfig, now, managerStage, queueBaseFeePerGas, queueMaxFeePerGas,
                   queueMaxPriorityFeePerGas, apiCall, lastStored>>

\* getGasPrice of the manager
getGasPrice_call ==
    /\ managerStage = "running"
    /\ apiCall.stage \in {"idle", "done"}
    /\ IF gasConfig.gasPriceRefreshInterval = 0
       THEN /\ refreshing' = refreshing \cup {"caller"}
            /\ apiCall' = [NoCall EXCEPT !.method = "getGasPrice", !.stage = "waiting"]
       ELSE /\ apiCall' =
                   IF queueMaxPriorityFeePerGas = <<>> \/ queueMaxFeePerGas = <<>>
                   THEN TypeError([NoCall EXCEPT !.method = "getGasPrice"])
                   ELSE [NoCall EXCEPT
                            !.method = "getGasPrice", !.stage = "done",
                            !.outcome = "returned",
                            !.gasPrice = GasPriceParameters(
                                last(queueMaxFeePerGas).maxFeePerGas,
                                last(queueMaxPriorityFeePerGas).maxPriorityFeePerGas)]
            /\ UNCHANGED refreshing
    /\ UNCHANGED <<gasConfig, now, managerStage, nextFire, queueBaseFeePerGas,
                   queueMaxFeePerGas, queueMaxPriorityFeePerGas, fetchingBaseFee,
                   lastStored>>

\* validateGasPrice up to its second await: getMinMaxFeePerGas reads the
\* lowest maxFeePerGas, after the getGasPrice it awaits when the queue is empty
validateGasPrice_call(gasPrice) ==
    /\ managerStage = "running"
    /\ apiCall.stage \in {"idle", "done"}
    /\ LET call == [NoCall EXCEPT !.method = "validateGasPrice", !.gasPrice = gasPrice]
       IN IF queueMaxFeePerGas # <<>>
          THEN /\ apiCall' = [call EXCEPT !.stage = "readMaxFeePerGas",
                                          !.lowestMaxFeePerGas =
                                              getMinMaxFeePerGas(queueMaxFeePerGas)]
               /\ UNCHANGED refreshing
          ELSE IF gasConfig.gasPriceRefreshInterval = 0
          THEN /\ apiCall' = [call EXCEPT !.stage = "forcedMaxFeePerGas"]
               /\ refreshing' = refreshing \cup {"caller"}
          ELSE /\ apiCall' = TypeError(call)
               /\ UNCHANGED refreshing
    /\ UNCHANGED <<gasConfig, now, managerStage, nextFire, queueBaseFeePerGas,
                   queueMaxFeePerGas, queueMaxPriorityFeePerGas, fetchingBaseFee,
                   lastStored>>

\* validateGasPrice from its second await on: getMinMaxPriorityFeePerGas, then
\* the comparisons
validateGasPrice_resume ==
    /\ apiCall.method = "validateGasPrice"
    /\ apiCall.stage = "readMaxFeePerGas"
    /\ IF queueMaxPriorityFeePerGas # <<>>
       THEN /\ apiCall' = validated(apiCall,
                                    getMinMaxPriorityFeePerGas(queueMaxPriorityFeePerGas))
            /\ UNCHANGED refreshing
       ELSE IF gasConfig.gasPriceRefreshInterval = 0
       THEN /\ apiCall' = [apiCall EXCEPT !.stage = "forcedMaxPriorityFeePerGas"]
            /\ refreshing' = refreshing \cup {"caller"}
       ELSE /\ apiCall' = TypeError(apiCall)
            /\ UNCHANGED refreshing
    /\ UNCHANGED <<gasConfig, now, managerStage, nextFire, queueBaseFeePerGas,
                   queueMaxFeePerGas, queueMaxPriorityFeePerGas, fetchingBaseFee,
                   lastStored>>

\* getBaseFee of the manager
getBaseFee_call ==
    /\ managerStage = "running"
    /\ apiCall.stage \in {"idle", "done"}
    /\ LET call == [NoCall EXCEPT !.method = "getBaseFee"]
       IN IF gasConfig.legacyTransactions
          THEN /\ apiCall' = [call EXCEPT
                                 !.stage = "done",
                                 !.outcome = "baseFee is not available for legacy transactions"]
               /\ UNCHANGED fetchingBaseFee
          ELSE IF gasConfig.gasPriceRefreshInterval = 0
          THEN /\ apiCall' = [call EXCEPT !.stage = "waiting"]
               /\ fetchingBaseFee' = fetchingBaseFee \cup {"caller"}
          ELSE /\ apiCall' = IF queueBaseFeePerGas = <<>> THEN TypeError(call)
                             ELSE [call EXCEPT
                                      !.stage = "done", !.outcome = "returned",
                                      !.baseFeePerGas =
                                          last(queueBaseFeePerGas).baseFeePerGas]
               /\ UNCHANGED fetchingBaseFee
    /\ UNCHANGED <<gasConfig, now, managerStage, nextFire, queueBaseFeePerGas,
                   queueMaxFeePerGas, queueMaxPriorityFeePerGas, refreshing, lastStored>>

\* a getMaxBaseFeePerGas whose getBaseFee does not look at legacyTransactions
getMaxBaseFeePerGas_call_anyChain ==
    /\ managerStage = "running"
    /\ apiCall.stage \in {"idle", "done"}
    /\ LET call == [NoCall EXCEPT !.method = "getMaxBaseFeePerGas"]
       IN IF queueBaseFeePerGas # <<>>
          THEN /\ apiCall' = [call EXCEPT
                                 !.stage = "done", !.outcome = "returned",
                                 !.baseFeePerGas = getMaxBaseFeePerGas(queueBaseFeePerGas)]
               /\ UNCHANGED fetchingBaseFee
          ELSE IF gasConfig.gasPriceRefreshInterval = 0
          THEN /\ apiCall' = [call EXCEPT !.stage = "waiting"]
               /\ fetchingBaseFee' = fetchingBaseFee \cup {"caller"}
          ELSE /\ apiCall' = TypeError(call)
               /\ UNCHANGED fetchingBaseFee
    /\ UNCHANGED <<gasConfig, now, managerStage, nextFire, queueBaseFeePerGas,
                   queueMaxFeePerGas, queueMaxPriorityFeePerGas, refreshing, lastStored>>
\* getMaxBaseFeePerGas of the manager: the getBaseFee it awaits when the queue
\* is empty, then the reduce
getMaxBaseFeePerGas_call ==
    /\ managerStage = "running"
    /\ apiCall.stage \in {"idle", "done"}
    /\ LET call == [NoCall EXCEPT !.method = "getMaxBaseFeePerGas"]
       IN IF queueBaseFeePerGas # <<>>
          THEN /\ apiCall' = [call EXCEPT
                                 !.stage = "done", !.outcome = "returned",
                                 !.baseFeePerGas = getMaxBaseFeePerGas(queueBaseFeePerGas)]
               /\ UNCHANGED fetchingBaseFee
          ELSE IF gasConfig.legacyTransactions
          THEN /\ apiCall' = [call EXCEPT
                                 !.stage = "done",
                                 !.outcome = "baseFee is not available for legacy transactions"]
               /\ UNCHANGED fetchingBaseFee
          ELSE IF gasConfig.gasPriceRefreshInterval = 0
          THEN /\ apiCall' = [call EXCEPT !.stage = "waiting"]
               /\ fetchingBaseFee' = fetchingBaseFee \cup {"caller"}
          ELSE /\ apiCall' = TypeError(call)
               /\ UNCHANGED fetchingBaseFee
    /\ UNCHANGED <<gasConfig, now, managerStage, nextFire, queueBaseFeePerGas,
                   queueMaxFeePerGas, queueMaxPriorityFeePerGas, refreshing, lastStored>>

(***************************************************************************)
(* Specifications.                                                         *)
(***************************************************************************)
vars == <<storeVars, reconciliation, metricVars, callerVars, senderVars, sharedVars, leaseVars,
          quoteVars, gasVars>>

\* the store's specifications leave a sender manager of the whole key list aside
Init ==
    /\ InitStore
    /\ InitCallers
    /\ createLocalSenderManager([executorPrivateKeys |-> ExecutorPrivateKeys,
                                 maxExecutors |-> <<>>,
                                 redisQueueEndpoint |-> <<>>])
    /\ NoSharedManager
    /\ InitLeases
    /\ NoQuote
    /\ NoGasManager

\* Spec: the store under callers that add a hash only when no list holds it,
\* with every interleaving of the other calls with a suspended reconciliation

\* the variables the steps of this specification leave alone
OnlyStore ==
    UNCHANGED <<metricVars, callerVars, senderVars, sharedVars, leaseVars, quoteVars,
                gasVars>>

Next ==
    \/ \E h \in Hashes : Fresh(h) /\ addOutstanding(h) /\ OnlyStore
    \/ \E h \in Hashes : Fresh(h) /\ addProcessing(h) /\ OnlyStore
    \/ \E h \in Hashes : Fresh(h) /\ addSubmitted(h) /\ OnlyStore
    \/ \E h \in Hashes : removeOutstanding(h) /\ OnlyStore
    \/ \E h \in Hashes : removeProcessing(h) /\ OnlyStore
    \/ \E h \in Hashes : removeSubmitted(h) /\ OnlyStore
    \/ \E from \in ClearTargets : clear(from) /\ OnlyStore
    \/ updateAvailableUserOperations_call /\ OnlyStore
    \/ \E oracle \in Oracles : updateAvailableUserOperations_resume(oracle) /\ OnlyStore
    \/ updateAvailableUserOperations_throw /\ OnlyStore

Spec == Init /\ [][Next]_vars

(***************************************************************************)
(* SpecLists: any sequence of add* and remove* calls, with the caller's    *)
(* bookkeeping of where it put each hash.                                  *)
(***************************************************************************)
noteAdd(store, h) ==
    /\ disciplined' = (disciplined /\ callerView[h] = "none")
    /\ callerView' = IF disciplined'
                     THEN [callerView EXCEPT ![h] = store]
                     ELSE [g \in Hashes |-> "none"]

noteRemove(store, h) ==
    /\ callerView' = IF disciplined /\ callerView[h] = store
                     THEN [callerView EXCEPT ![h] = "none"]
                     ELSE callerView
    /\ UNCHANGED disciplined

\* the variables the steps of this specification leave alone
OnlyStoreAndView ==
    UNCHANGED <<metricVars, lastReconciliation, dumped, senderVars, sharedVars, leaseVars,
                quoteVars, gasVars>>

NextLists ==
    \/ \E h \in Hashes : addOutstanding(h) /\ noteAdd("outstanding", h) /\ OnlyStoreAndView
    \/ \E h \in Hashes : addProcessing(h) /\ noteAdd("processing", h) /\ OnlyStoreAndView
    \/ \E h \in Hashes : addSubmitted(h) /\ noteAdd("submitted", h) /\ OnlyStoreAndView
    \/ \E h \in Hashes : removeOutstanding(h) /\ noteRemove("outstanding", h)
           /\ OnlyStoreAndView
    \/ \E h \in Hashes : removeProcessing(h) /\ noteRemove("processing", h)
           /\ OnlyStoreAndView
    \/ \E h \in Hashes : removeSubmitted(h) /\ noteRemove("submitted", h)
           /\ OnlyStoreAndView

SpecLists == Init /\ [][NextLists]_vars

(***************************************************************************)
(* SpecSerial: addOutstanding, removeOutstanding and reconciliations that  *)
(* run to completion before the next call.                                 *)
(***************************************************************************)
noteReconciliation(oracle) ==
    lastReconciliation' =
        [valid |-> TRUE, outstandingOps |-> outstandingUserOperations, oracle |-> oracle,
         repeated |-> /\ lastReconciliation.valid
                      /\ lastReconciliation.outstandingOps = outstandingUserOperations
                      /\ lastReconciliation.oracle = oracle,
         dropped |-> HashesOf(avaiableOutstandingUserOperations)
                         \ HashesOf(avaiableOutstandingUserOperations')]

\* the variables the steps of this specification leave alone
OnlyStoreAndRecord ==
    UNCHANGED <<metricVars, callerView, disciplined, dumped, senderVars, sharedVars,
                leaseVars, quoteVars, gasVars>>

NextSerial ==
    \/ \E h \in Hashes : addOutstanding(h) /\ lastReconciliation' = NoReconciliation
           /\ OnlyStoreAndRecord
    \/ \E h \in Hashes : removeOutstanding(h) /\ lastReconciliation' = NoReconciliation
           /\ OnlyStoreAndRecord
    \/ \E oracle \in Oracles :
              updateAvailableUserOperations(oracle) /\ noteReconciliation(oracle)
              /\ OnlyStoreAndRecord
    \/ updateAvailableUserOperations_rejected /\ lastReconciliation' = NoReconciliation
           /\ OnlyStoreAndRecord

SpecSerial == Init /\ [][NextSerial]_vars

(***************************************************************************)
(* SpecGauge: addOutstanding, removeOutstanding and reconciliations that   *)
(* run to completion, with the gauge of the outstanding user operations.   *)
(***************************************************************************)
\* the gauge is followed up to this value
MaxGauge == 4

\* .inc() of the gauge at the end of addOutstanding
addOutstanding_inc == userOperationsInMempool' = userOperationsInMempool + 1

\* .dec() of the gauge at the end of removeOutstanding, behind its two
\* early returns
removeOutstanding_dec(userOpHash) ==
    LET index == findIndex(outstandingUserOperations, userOpHash)
        availableIndex == findIndex(avaiableOutstandingUserOperations, userOpHash)
    IN userOperationsInMempool' =
           IF index = 0 THEN userOperationsInMempool
           ELSE IF availableIndex = 0 THEN userOperationsInMempool
           ELSE userOperationsInMempool - 1

\* the variables the steps of this specification leave alone
OnlyStoreAndGauge ==
    UNCHANGED <<callerVars, senderVars, sharedVars, leaseVars, quoteVars, gasVars>>

NextGauge ==
    \/ \E h \in Hashes :
           /\ userOperationsInMempool < MaxGauge
           /\ addOutstanding(h) /\ addOutstanding_inc /\ OnlyStoreAndGauge
    \/ \E h \in Hashes :
           removeOutstanding(h) /\ removeOutstanding_dec(h) /\ OnlyStoreAndGauge
    \/ \E oracle \in Oracles :
           /\ updateAvailableUserOperations(oracle)
           /\ UNCHANGED userOperationsInMempool
           /\ OnlyStoreAndGauge

SpecGauge == Init /\ [][NextGauge]_vars

(***************************************************************************)
(* SpecNonce: the three lists are filled with user operations of distinct  *)
(* (sender, nonceKey, nonceValue) while the oracle moves between           *)
(* reconciliations that run to completion.                                 *)
(***************************************************************************)
NextNonce ==
    \/ \E h \in DistinctHashes :
           Fresh(h) /\ addOutstanding(h) /\ lastReconciliation' = NoReconciliation
               /\ OnlyStoreAndRecord
    \/ \E h \in DistinctHashes :
           Fresh(h) /\ addProcessing(h) /\ lastReconciliation' = NoReconciliation
               /\ OnlyStoreAndRecord
    \/ \E h \in DistinctHashes :
           Fresh(h) /\ addSubmitted(h) /\ lastReconciliation' = NoReconciliation
               /\ OnlyStoreAndRecord
    \/ \E oracle \in Oracles :
              updateAvailableUserOperations(oracle) /\ noteReconciliation(oracle)
              /\ OnlyStoreAndRecord

SpecNonce == Init /\ [][NextNonce]_vars

(***************************************************************************)
(* SpecOrder: user operations of distinct (sender, nonceKey, nonceValue)   *)
(* are added, removed and reconciled; addOutstanding and removeOutstanding *)
(* also run while a reconciliation awaits its multicall.                   *)
(***************************************************************************)
NextOrder ==
    \/ \E h \in DistinctHashes : Fresh(h) /\ addOutstanding(h) /\ OnlyStore
    \/ \E h \in DistinctHashes : removeOutstanding(h) /\ OnlyStore
    \/ updateAvailableUserOperations_call /\ OnlyStore
    \/ \E oracle \in Oracles : updateAvailableUserOperations_resume(oracle) /\ OnlyStore

SpecOrder == Init /\ [][NextOrder]_vars

(***************************************************************************)
(* SpecDump: a caller keeps the array one dump* call returned while the    *)
(* store goes on.                                                          *)
(***************************************************************************)
Stores == {"outstanding", "availableOutstanding", "processing", "submitted"}

dump(store) ==
    CASE store = "outstanding" -> dumpOutstanding
      [] store = "availableOutstanding" -> dumbAvailableOutstanding
      [] store = "processing" -> dumpProcessing
      [] store = "submitted" -> dumpSubmitted

\* the same arrays after the step
dumpAfter(store) ==
    CASE store = "outstanding" -> outstandingUserOperations'
      [] store = "availableOutstanding" -> avaiableOutstandingUserOperations'
      [] store = "processing" -> processingUserOperations'
      [] store = "submitted" -> submittedUserOperations'

\* the caller calls dump* and keeps what it returns
keepDump(store) ==
    /\ ~dumped.taken
    /\ dumped' = [taken |-> TRUE, store |-> store, attached |-> TRUE, list |-> dump(store)]
    /\ UNCHANGED <<storeVars, reconciliation>>

\* what a step of the store does to the array the caller keeps: push and splice
\* change it in place, an assignment to the field leaves it behind
aliased(assigned) ==
    dumped' = IF ~(dumped.taken /\ dumped.attached) THEN dumped
              ELSE IF dumped.store \in assigned THEN [dumped EXCEPT !.attached = FALSE]
              ELSE [dumped EXCEPT !.list = dumpAfter(dumped.store)]

\* the caller lets go of the array
dropDump ==
    /\ dumped.taken
    /\ dumped' = NotDumped
    /\ UNCHANGED <<storeVars, reconciliation>>

RoomDump == Len(outstandingUserOperations) + Len(processingUserOperations)
                + Len(submittedUserOperations) < MaxDumpOps

\* the variables the steps of this specification leave alone
OnlyStoreAndDump ==
    UNCHANGED <<metricVars, callerView, disciplined, lastReconciliation, senderVars,
                sharedVars, leaseVars, quoteVars, gasVars>>

NextDump ==
    \/ \E h \in Hashes : RoomDump /\ Fresh(h) /\ addOutstanding(h) /\ aliased({})
           /\ OnlyStoreAndDump
    \/ \E h \in Hashes : RoomDump /\ Fresh(h) /\ addProcessing(h) /\ aliased({})
           /\ OnlyStoreAndDump
    \/ \E h \in Hashes : RoomDump /\ Fresh(h) /\ addSubmitted(h) /\ aliased({})
           /\ OnlyStoreAndDump
    \/ \E h \in Hashes : removeOutstanding(h) /\ aliased({}) /\ OnlyStoreAndDump
    \/ \E h \in Hashes : removeProcessing(h) /\ aliased({}) /\ OnlyStoreAndDump
    \/ \E h \in Hashes : removeSubmitted(h) /\ aliased({}) /\ OnlyStoreAndDump
    \/ \E from \in ClearTargets : clear(from) /\ aliased({from}) /\ OnlyStoreAndDump
    \/ \E oracle \in Oracles :
              updateAvailableUserOperations(oracle) /\ aliased({"availableOutstanding"})
              /\ OnlyStoreAndDump
    \/ \E store \in Stores : keepDump(store) /\ OnlyStoreAndDump
    \/ dropDump /\ OnlyStoreAndDump

SpecDump == Init /\ [][NextDump]_vars

(***************************************************************************)
(* SpecSender: callers of a sender manager, each giving back the account   *)
(* it got. createSenderManager picks the shared manager when the           *)
(* configuration names a store, the local one otherwise.                   *)
(***************************************************************************)
createSenderManager(cfg) ==
    IF cfg.redisQueueEndpoint # <<>>
    THEN createRedisSenderManager(cfg)
    ELSE createLocalSenderManager(cfg) /\ NoSharedManager

InitSender == \E cfg \in Configs : createSenderManager(cfg)

InitLocal ==
    InitStore /\ InitCallers /\ InitSender /\ InitLeases /\ NoQuote /\ NoGasManager

Local == config.redisQueueEndpoint = <<>>
Shared == config.redisQueueEndpoint # <<>>

\* the variables the steps of this specification leave alone
OnlySender ==
    UNCHANGED <<metricVars, storeVars, reconciliation, callerVars, quoteVars, gasVars>>

NextSender ==
    \/ \E c \in Callers :
           Local /\ getWallet_call(c) /\ noteArrival(c) /\ UNCHANGED sharedVars /\ OnlySender
    \/ \E c \in Callers :
           Local /\ getWallet_resume(c) /\ noteLease(c) /\ UNCHANGED sharedVars /\ OnlySender
    \/ \E c \in Callers :
           Local /\ returnWallet(c) /\ notePush(c, callerWallet[c])
                 /\ UNCHANGED sharedVars /\ OnlySender
    \/ \E p \in Processes : Shared /\ createRedisQueue_llen(p) /\ noteNothing /\ OnlySender
    \/ \E p \in Processes : Shared /\ createRedisQueue_lpush(p) /\ noteNothing /\ OnlySender
    \/ \E c \in Callers : Shared /\ redisGetWallet_call(c) /\ noteNothing /\ OnlySender
    \/ \E c \in Callers : Shared /\ redisGetWallet_pop(c) /\ notePop(c) /\ OnlySender
    \/ \E c \in Callers : Shared /\ redisGetWallet_resume(c) /\ noteNothing /\ OnlySender
    \/ \E c \in Callers :
           Shared /\ redisReturnWallet(c) /\ notePush(c, callerWallet[c]) /\ OnlySender

SpecSender == InitLocal /\ [][NextSender]_vars

(***************************************************************************)
(* SpecShared: two bundler processes on one store, each with a shared      *)
(* sender manager made from its own configuration; the callers of the two  *)
(* processes give back the account they got.                               *)
(***************************************************************************)
SharedConfigs == {cfg \in Configs : cfg.redisQueueEndpoint # <<>>}

InitShared ==
    /\ InitStore /\ InitCallers /\ InitLeases /\ NoQuote /\ NoGasManager
    /\ \E cfg \in SharedConfigs, peer \in SharedConfigs :
           createRedisSenderManagers(cfg, peer)

NextShared ==
    \/ \E p \in Processes : createRedisQueue_llen(p) /\ noteNothing /\ OnlySender
    \/ \E p \in Processes : createRedisQueue_lpush(p) /\ noteNothing /\ OnlySender
    \/ \E c \in Callers : redisGetWallet_call(c) /\ noteNothing /\ OnlySender
    \/ \E c \in Callers : redisGetWallet_pop(c) /\ notePop(c) /\ OnlySender
    \/ \E c \in Callers : redisGetWallet_resume(c) /\ noteNothing /\ OnlySender
    \/ \E c \in Callers :
           redisReturnWallet(c) /\ notePush(c, callerWallet[c]) /\ OnlySender

SpecShared == InitShared /\ [][NextShared]_vars

(***************************************************************************)
(* SpecLocal: the local sender manager alone, under callers that give back *)
(* the account they got; SpecLocalFair adds that each of them does so in   *)
(* the end and that a continuation whose promise resolved runs.            *)
(***************************************************************************)
InitLocalOnly == InitLocal /\ Local

\* the variables the steps of the local manager leave alone
OnlyLocal ==
    UNCHANGED <<metricVars, storeVars, reconciliation, callerVars, sharedVars, quoteVars,
                gasVars>>

NextLocal ==
    \/ \E c \in Callers : getWallet_call(c) /\ noteArrival(c) /\ OnlyLocal
    \/ \E c \in Callers : getWallet_resume(c) /\ noteLease(c) /\ OnlyLocal
    \/ \E c \in Callers : returnWallet(c) /\ notePush(c, callerWallet[c]) /\ OnlyLocal

SpecLocalFair ==
    /\ InitLocalOnly
    /\ [][NextLocal]_vars
    /\ \A c \in Callers :
           /\ WF_vars(getWallet_resume(c) /\ noteLease(c) /\ OnlyLocal)
           /\ WF_vars(returnWallet(c) /\ notePush(c, callerWallet[c]) /\ OnlyLocal)

(***************************************************************************)
(* SpecAnyPush: the local sender manager under callers that call           *)
(* pushWallet with any account of the pool at any time.                    *)
(***************************************************************************)
\* the semaphore value up to which the runs are followed
MaxPermits == 3

NextAnyPush ==
    \/ \E c \in Callers : getWallet_call(c) /\ noteArrival(c) /\ OnlyLocal
    \/ \E c \in Callers : getWallet_resume(c) /\ noteLease(c) /\ OnlyLocal
    \/ \E c \in Callers, wallet \in Range(ExecutorPrivateKeys) :
           /\ callerState[c] \in {"idle", "holding"}
           /\ wallet \in Range(wallets)
           /\ semaphoreValue < MaxPermits
           /\ pushWallet(c, wallet) /\ notePush(c, wallet) /\ OnlyLocal

SpecAnyPush == InitLocalOnly /\ [][NextAnyPush]_vars

(***************************************************************************)
(* SpecQuote: one run of innerGetGasPrice for every configuration and      *)
(* every combination of answers.                                            *)
(***************************************************************************)
\* the rest of the core, idle
RestOfCore ==
    /\ InitStore /\ InitCallers /\ InitLeases /\ NoSharedManager
    /\ createLocalSenderManager([executorPrivateKeys |-> ExecutorPrivateKeys,
                                 maxExecutors |-> <<>>,
                                 redisQueueEndpoint |-> <<>>])

InitQuotes == RestOfCore /\ InitQuote /\ NoGasManager

\* the variables the steps of this specification leave alone
OnlyQuote ==
    UNCHANGED <<metricVars, storeVars, reconciliation, callerVars, senderVars, sharedVars,
                leaseVars, gasVars>>

NextQuote == innerGetGasPrice_run /\ OnlyQuote

SpecQuote == InitQuotes /\ [][NextQuote]_vars

(***************************************************************************)
(* SpecGas: a gas price manager from its construction on, its refreshes    *)
(* and the calls of getGasPrice and validateGasPrice.                      *)
(***************************************************************************)
InitGasManager == RestOfCore /\ NoQuote /\ InitGas

\* the variables the steps of this specification leave alone
OnlyGas ==
    UNCHANGED <<metricVars, storeVars, reconciliation, callerVars, senderVars, sharedVars,
                leaseVars, quoteVars>>

NextGas ==
    \/ clock_tick /\ OnlyGas
    \/ \E task \in RefreshTasks, rpc \in RefreshAnswers :
           updateGasPrice_resume(task, rpc) /\ OnlyGas
    \/ \E task \in RefreshTasks, block \in BlockAnswers :
           updateBaseFee_resume(task, block) /\ OnlyGas
    \/ createGasPriceManager_resume /\ OnlyGas
    \/ setInterval_fire /\ OnlyGas
    \/ getGasPrice_call /\ OnlyGas
    \/ \E gasPrice \in ValidatedGasPrices : validateGasPrice_call(gasPrice) /\ OnlyGas
    \/ validateGasPrice_resume /\ OnlyGas
    \/ getMaxBaseFeePerGas_call /\ OnlyGas

SpecGas == InitGasManager /\ [][NextGas]_vars

(***************************************************************************)
(* SpecQueues: the three fee queues under any run of saves made with the   *)
(* readings of a clock that does not go back.                              *)
(***************************************************************************)
\* the fees saved
SavedFees == {8, 9, 10}
\* the priority fees and base fees saved
SavedTips == {8, 9}

\* the settings of the queue size
QueueConfigs ==
    [chain : {"other"}, gasPriceBump : {100}, legacyTransactions : {FALSE},
     gasPriceRefreshInterval : {0}, chainType : {"default"},
     gasPriceExpiry : {1, 2, 3}]

\* the state createGasPriceManager builds, before any refresh
InitQueues ==
    /\ RestOfCore /\ NoQuote
    /\ gasConfig \in QueueConfigs
    /\ now = 0
    /\ managerStage = "none"
    /\ nextFire = 0
    /\ queueBaseFeePerGas = <<>>
    /\ queueMaxFeePerGas = <<>>
    /\ queueMaxPriorityFeePerGas = <<>>
    /\ refreshing = {}
    /\ fetchingBaseFee = {}
    /\ apiCall = NoCall
    /\ lastStored = <<>>

\* the variables a save leaves alone
OnlyQueues ==
    UNCHANGED <<gasConfig, now, managerStage, nextFire, refreshing, fetchingBaseFee,
                apiCall, lastStored>>

\* saveMaxFeePerGas(state, {maxFeePerGas, timestamp: Date.now()})
saveMaxFeePerGas_call(maxFeePerGas) ==
    /\ queueMaxFeePerGas' =
           saveMaxFeePerGas(queueMaxFeePerGas, gasConfig.gasPriceExpiry, maxFeePerGas, now)
    /\ UNCHANGED <<queueBaseFeePerGas, queueMaxPriorityFeePerGas>>
    /\ OnlyQueues

\* saveMaxPriorityFeePerGas(state, {maxPriorityFeePerGas, timestamp: Date.now()})
saveMaxPriorityFeePerGas_call(maxPriorityFeePerGas) ==
    /\ queueMaxPriorityFeePerGas' =
           saveMaxPriorityFeePerGas(queueMaxPriorityFeePerGas, gasConfig.gasPriceExpiry,
                                    maxPriorityFeePerGas, now)
    /\ UNCHANGED <<queueBaseFeePerGas, queueMaxFeePerGas>>
    /\ OnlyQueues

\* saveBaseFeePerGas(state, {baseFeePerGas, timestamp: Date.now()})
saveBaseFeePerGas_call(baseFeePerGas) ==
    /\ queueBaseFeePerGas' =
           saveBaseFeePerGas(queueBaseFeePerGas, gasConfig.gasPriceExpiry, baseFeePerGas, now)
    /\ UNCHANGED <<queueMaxFeePerGas, queueMaxPriorityFeePerGas>>
    /\ OnlyQueues

NextQueues ==
    \/ clock_tick /\ OnlyGas
    \/ \E fee \in SavedFees : saveMaxFeePerGas_call(fee) /\ OnlyGas
    \/ \E fee \in SavedTips : saveMaxPriorityFeePerGas_call(fee) /\ OnlyGas
    \/ \E fee \in SavedTips : saveBaseFeePerGas_call(fee) /\ OnlyGas

SpecQueues == InitQueues /\ [][NextQueues]_vars

(***************************************************************************)
(* SpecCached: a gas price manager that refreshes on its timer and answers *)
(* getGasPrice and getBaseFee from its queues.                              *)
(***************************************************************************)
\* the last instant these runs reach (milliseconds)
CachedHorizon == 3000

CachedConfigs ==
    [chain : {"other"}, gasPriceBump : {100}, legacyTransactions : BOOLEAN,
     gasPriceRefreshInterval : {1}, chainType : {"default"},
     gasPriceExpiry : {0, 1, 2}]

\* the answers a refresh of this manager can get
CachedAnswers ==
    [gasStation : {Failed},
     estimateFeesPerGasLegacy : {[ok |-> TRUE, gasPrice |-> <<100>>]},
     estimateFeesPerGas : {Failed,
                           [ok |-> TRUE, maxFeePerGas |-> <<400>>,
                            maxPriorityFeePerGas |-> <<0>>],
                           [ok |-> TRUE, maxFeePerGas |-> <<100>>,
                            maxPriorityFeePerGas |-> <<100>>],
                           [ok |-> TRUE, maxFeePerGas |-> <<400>>,
                            maxPriorityFeePerGas |-> <<400>>]},
     getGasPrice : {Failed},
     getFeeHistory : {Failed},
     getBlock : {Failed}]

\* the latest blocks updateBaseFee can get
CachedBlocks ==
    {Failed, [ok |-> TRUE, baseFeePerGas |-> 80, gasUsed |-> 2, gasLimit |-> 10]}

InitCached ==
    RestOfCore /\ NoQuote /\ \E cfg \in CachedConfigs : createGasPriceManager(cfg)

\* Date.now() moves on
clock_advance ==
    /\ now + ClockStep <= CachedHorizon
    /\ now' = now + ClockStep
    /\ UNCHANGED <<gasConfig, managerStage, nextFire, queueBaseFeePerGas,
                   queueMaxFeePerGas, queueMaxPriorityFeePerGas, refreshing,
                   fetchingBaseFee, apiCall, lastStored>>

NextCached ==
    \/ clock_advance /\ OnlyGas
    \/ \E task \in RefreshTasks, rpc \in CachedAnswers :
           updateGasPrice_resume(task, rpc) /\ OnlyGas
    \/ \E task \in RefreshTasks, block \in CachedBlocks :
           updateBaseFee_resume(task, block) /\ OnlyGas
    \/ createGasPriceManager_resume /\ OnlyGas
    \/ setInterval_fire /\ OnlyGas
    \/ getGasPrice_call /\ OnlyGas
    \/ getBaseFee_call /\ OnlyGas

SpecCached == InitCached /\ [][NextCached]_vars

(***************************************************************************)
(* Properties.                                                             *)
(***************************************************************************)
Info(h) == UserOperationInfo(h)

\* the number of lists among outstanding, processing and submitted holding h
ListsHolding(h) ==
    (IF h \in HashesOf(outstandingUserOperations) THEN 1 ELSE 0)
    + (IF h \in HashesOf(processingUserOperations) THEN 1 ELSE 0)
    + (IF h \in SubmittedHashes THEN 1 ELSE 0)

\* C1 as stated: after any sequence of add* and remove* calls every hash is in
\* at most one of the outstanding, processing and submitted lists.
C1_AnySequenceAtMostOneList == \A h \in Hashes : ListsHolding(h) <= 1

\* C1, amended: when every add was made with a hash that the caller had never
\* added or had since removed with the remove call of the list it added it to,
\* every hash is in at most one of the outstanding, processing and submitted lists.
C1_DisciplinedAtMostOneList ==
    disciplined => \A h \in Hashes : ListsHolding(h) <= 1

C1_Witness ==
    /\ disciplined
    /\ outstandingUserOperations = <<Info("h3")>>
    /\ processingUserOperations = <<Info("h2")>>
    /\ submittedUserOperations = <<SubmittedUserOperation("h1")>>

\* C2: with reconciliations that run to completion before the next call, after
\* every addOutstanding, removeOutstanding and updateAvailableUserOperations
\* every hash of the available list is a hash of the outstanding list.
C2_AvailableWithinOutstanding ==
    HashesOf(avaiableOutstandingUserOperations) \subseteq HashesOf(outstandingUserOperations)

C2_Witness ==
    /\ outstandingUserOperations = <<Info("h3"), Info("h2")>>
    /\ avaiableOutstandingUserOperations = <<Info("h3")>>
    /\ reconciliation.state = "fulfilled"

\* the entries of the list with another hash than h, in their order
Others(list, h) == SelectSeq(list, LAMBDA op : op.userOperationHash # h)
CountHash(list, h) == Cardinality({i \in 1..Len(list) : list[i].userOperationHash = h})

\* after is before less one entry of hash h, the rest in the same order
OneRemoved(before, after, h) ==
    /\ Len(after) = Len(before) - 1
    /\ CountHash(after, h) = CountHash(before, h) - 1
    /\ Others(after, h) = Others(before, h)

\* C3: removeOutstanding(h) with h in the outstanding list takes one entry of
\* hash h out of it, and one out of the available list when it holds h, keeps
\* the order of the entries left in both lists and leaves the processing and
\* submitted lists as they were.
C3_RemoveOutstandingCascades ==
    [][\A h \in Hashes :
          (removeOutstanding(h) /\ h \in HashesOf(outstandingUserOperations)) =>
              /\ OneRemoved(outstandingUserOperations, outstandingUserOperations', h)
              /\ IF h \in HashesOf(avaiableOutstandingUserOperations)
                 THEN OneRemoved(avaiableOutstandingUserOperations,
                                 avaiableOutstandingUserOperations', h)
                 ELSE UNCHANGED avaiableOutstandingUserOperations
              /\ UNCHANGED <<processingUserOperations, submittedUserOperations>>]_vars

\* three promoted operations, then removeOutstanding("h1")
C3_Witness ==
    /\ outstandingUserOperations = <<Info("h2"), Info("h3")>>
    /\ avaiableOutstandingUserOperations = <<Info("h3"), Info("h2")>>
    /\ reconciliation.state = "fulfilled"

\* the oracle call of the operation's (sender, nonceKey) succeeded with its nonce value
Promoted(op, oracle) ==
    LET keyAndValue == getNonceKeyAndValue(op.userOperation)
        answer == oracle[<<op.userOperation.sender, keyAndValue[1]>>]
    IN answer.status = "success" /\ answer.result = keyAndValue[2]

\* C4: the list a reconciliation publishes holds the operations of its snapshot
\* whose oracle call succeeded with the operation's nonce value, each as often
\* as the snapshot holds it, and nothing else.
C4_PublishedExactlyPromoted ==
    [][(reconciliation.state = "pending" /\ reconciliation'.state = "fulfilled") =>
          \A oracle \in Oracles :
              updateAvailableUserOperations_resume(oracle) =>
                  LET snapshot == reconciliation.outstandingOps
                      list == avaiableOutstandingUserOperations'
                  IN /\ Range(list) \subseteq Range(snapshot)
                     /\ \A op \in Range(snapshot) :
                            Count(list, op) = IF Promoted(op, oracle)
                                              THEN Count(snapshot, op) ELSE 0]_vars

C4_Witness ==
    /\ reconciliation.state = "fulfilled"
    /\ outstandingUserOperations = <<Info("h1"), Info("h2"), Info("h3")>>
    /\ avaiableOutstandingUserOperations = <<Info("h1"), Info("h3")>>

\* C5: a multicall that fails as a whole leaves the four lists as they were.
C5_MulticallFailureAborts ==
    [][updateAvailableUserOperations_throw => UNCHANGED storeVars]_vars

C5_Witness ==
    /\ reconciliation.state = "rejected"
    /\ outstandingUserOperations = <<Info("h2")>>
    /\ avaiableOutstandingUserOperations = <<Info("h1")>>

\* C6: a reconciliation that completes right after one with the same outstanding
\* list and the same oracle answers leaves the available list as that one left it.
C6_ReconciliationIdempotent ==
    [][\A oracle \in Oracles :
          (/\ updateAvailableUserOperations(oracle)
           /\ lastReconciliation.valid
           /\ lastReconciliation.outstandingOps = outstandingUserOperations
           /\ lastReconciliation.oracle = oracle) =>
              UNCHANGED avaiableOutstandingUserOperations]_vars

C6_Witness ==
    /\ lastReconciliation.repeated
    /\ avaiableOutstandingUserOperations = <<Info("h1"), Info("h3")>>
    /\ outstandingUserOperations = <<Info("h1"), Info("h2"), Info("h3")>>

\* C7: a list returned by dumpOutstanding, dumpAvailableOutstanding,
\* dumpProcessing or dumpSubmitted holds the same entries after any later call.
C7_DumpIsSnapshot ==
    [][(dumped.taken /\ dumped'.taken) => dumped'.list = dumped.list]_vars

\* C8: clear(from) empties the named list and leaves the other three lists,
\* the available list among them, as they were.
C8_ClearOnlyNamed ==
    [][\A from \in ClearTargets :
          clear(from) =>
              /\ avaiableOutstandingUserOperations' = avaiableOutstandingUserOperations
              /\ outstandingUserOperations' =
                     IF from = "outstanding" THEN <<>> ELSE outstandingUserOperations
              /\ processingUserOperations' =
                     IF from = "processing" THEN <<>> ELSE processingUserOperations
              /\ submittedUserOperations' =
                     IF from = "submitted" THEN <<>> ELSE submittedUserOperations]_vars

C8_Witness ==
    /\ outstandingUserOperations = <<>>
    /\ avaiableOutstandingUserOperations = <<Info("h1"), Info("h3")>>
    /\ processingUserOperations = <<Info("h2")>>

\* C9: a remove* call with a hash that its list does not hold leaves the four
\* lists as they were.
C9_RemoveAbsentChangesNothing ==
    [][\A h \in Hashes :
          /\ (removeOutstanding(h) /\ h \notin HashesOf(outstandingUserOperations))
                 => UNCHANGED storeVars
          /\ (removeProcessing(h) /\ h \notin HashesOf(processingUserOperations))
                 => UNCHANGED storeVars
          /\ (removeSubmitted(h) /\ h \notin SubmittedHashes)
                 => UNCHANGED storeVars]_vars

\* the available list still holds a hash that the outstanding list lost
C9_Witness ==
    /\ "h1" \notin HashesOf(outstandingUserOperations)
    /\ "h1" \in HashesOf(avaiableOutstandingUserOperations)
    /\ processingUserOperations = <<Info("h2")>>

Holders(wallet) == {c \in Callers : callerState[c] = "holding" /\ callerWallet[c] = wallet}
Leased == {c \in Callers : callerState[c] = "holding"}

\* C10: when every caller gives back the account it got, no account of the
\* local manager is held by two callers at once and no more accounts are leased
\* than the pool has.
C10_MutualExclusion ==
  Local =>
    /\ \A wallet \in Range(wallets) : Cardinality(Holders(wallet)) <= 1
    /\ \A c \in Leased : callerWallet[c] \in Range(wallets)
    /\ Cardinality(Leased) <= Len(wallets)

\* a pool of two: w1 came back while w2 is held, and the queued caller was served
C10_Witness ==
    /\ Local
    /\ Len(wallets) = 2
    /\ availableWallets = <<"w1">>
    /\ callerState = [c \in Callers |-> CASE c = "c1" -> "idle"
                                          [] c = "c2" -> "holding"
                                          [] c = "c3" -> "acquired"]
    /\ callerWallet["c2"] = "w2"

Busy == {c \in Callers : callerState[c] \in {"acquired", "holding"}}

\* C11: a local getWallet call is let through at once exactly when fewer
\* accounts are leased than the pool has, and the accounts so obtained differ
\* from every account held; a call that waits stays waiting until a pushWallet
\* step, and then resolves to the account that pushWallet gave back.
C11_ContentionThenPushedAccount ==
    [][Local =>
         \A c \in Callers :
             /\ getWallet_call(c) =>
                    ((callerState'[c] = "acquired") <=> (Cardinality(Busy) < Len(wallets)))
             /\ (callerState[c] = "waiting" /\ callerState'[c] # "waiting") =>
                    \E d \in Callers : returnWallet(d)
             /\ getWallet_resume(c) =>
                    /\ callerState'[c] = "holding"
                    /\ \A d \in Leased : callerWallet[d] # callerWallet'[c]
                    /\ unblockedBy[c] # "none" => callerWallet'[c] = unblockedBy[c]]_vars

\* a pool of two and three calls: c3 waited, c1 gave w1 back, c3 holds w1
C11_Witness ==
    /\ Local
    /\ Len(wallets) = 2
    /\ callerState["c2"] = "holding" /\ callerWallet["c2"] = "w2"
    /\ callerState["c3"] = "holding" /\ callerWallet["c3"] = "w1"
    /\ unblockedBy["c3"] = "w1"

Plus(n, condition) == IF condition THEN n + 1 ELSE n

\* C12: the step of getWallet that takes an account takes exactly that account
\* out of the pool of free accounts, and pushWallet of the account obtained puts
\* exactly it back, so the two restore the multiset of free accounts (local
\* deque and shared list alike).
C12_RoundTripRestoresPool ==
    [][\A c \in Callers :
         /\ (Local /\ getWallet_resume(c)) =>
                \A w \in Range(wallets) :
                    Count(availableWallets, w) =
                        Plus(Count(availableWallets', w), callerWallet'[c] = w)
         /\ (Local /\ returnWallet(c)) =>
                \A w \in Range(wallets) :
                    Count(availableWallets', w) =
                        Plus(Count(availableWallets, w), callerWallet[c] = w)
         /\ (Shared /\ redisGetWallet_pop(c)) =>
                \A w \in Range(wallets) :
                    Count(redisList, address(w)) =
                        Plus(Count(redisList', address(w)), walletAddress'[c] = address(w))
         /\ (Shared /\ redisReturnWallet(c)) =>
                \A w \in Range(wallets) :
                    Count(redisList', address(w)) =
                        Plus(Count(redisList, address(w)), walletAddress[c] = address(w))]_vars

\* the shared list of a pool of three after one getWallet and its pushWallet
C12_Witness ==
    /\ Shared
    /\ redisList = <<address("w3"), address("w2"), address("w1")>>
    /\ pushedBack = <<"w1">>
    /\ \A c \in Callers : callerState[c] = "idle"

\* every free account of the local deque has been leased and given back
AllPushedBack ==
    availableWallets # <<>> /\ Range(availableWallets) \subseteq Range(pushedBack)

\* C13 as stated: once the pool was drained and accounts were pushed back, the
\* local getWallet hands out the account pushed most recently.
C13_LocalMostRecentlyPushedFirst ==
    [][\A c \in Callers :
         (Local /\ AllPushedBack /\ getWallet_resume(c)) =>
             callerWallet'[c] = pushedBack[Len(pushedBack)]]_vars

\* C13 amended: it hands out the account pushed earliest.
C13_LocalEarliestPushedFirst ==
    [][\A c \in Callers :
         (Local /\ AllPushedBack /\ getWallet_resume(c)) =>
             callerWallet'[c] = Head(pushedBack)]_vars

\* w2 then w1 were given back to a drained pool, and the next getWallet got w2
C13_Witness ==
    /\ Local
    /\ lastLease = [wallet |-> "w2", from |-> <<"w2", "w1">>]
    /\ availableWallets = <<"w1">>

\* C14: the shared getWallet pops, of the addresses pushWallet returned, the
\* one pushed earliest.
C14_SharedEarliestPushedFirst ==
    [][\A c \in Callers :
         (Shared /\ pushedBack # <<>> /\ redisGetWallet_pop(c)) =>
             walletAddress'[c] = address(Head(pushedBack))]_vars

\* the pool getAvailableWallets is specified to give
ConfiguredPool ==
    LET keys == config.executorPrivateKeys
        n == IF config.maxExecutors = <<>> \/ config.maxExecutors[1] >= Len(keys)
             THEN Len(keys) ELSE config.maxExecutors[1]
    IN [i \in 1..n |-> keys[i]]

\* C15: getAllWallets answers the configured pool, whatever is leased or
\* given back.
C15_GetAllWalletsIsConfiguredPool == getAllWallets = ConfiguredPool

\* a pool cut to two of three keys, one account leased after one was given back
C15_Witness ==
    /\ config.maxExecutors = <<2>>
    /\ pushedBack # <<>>
    /\ \E c \in Callers : callerState[c] = "holding"

\* the chain floor of the priority fee as the bump rule is specified
chainFloor ==
    CASE quoteConfig.chain = "polygon" -> 31 * WeiPerGwei
      [] quoteConfig.chain = "polygonMumbai" -> 1 * WeiPerGwei
      [] OTHER -> 0

\* a bumpTheGasPrice call on a chain without overrides
PlainBump ==
    /\ bumpCall # <<>>
    /\ quoteConfig.chain \in {"polygon", "polygonMumbai", "other"}

\* C18 as stated: on a chain without overrides both fees are multiplied by
\* gasPriceBump / 100 first and the chain floor is applied to the product:
\* maxPriorityFeePerGas = max(p * b / 100, floor), maxFeePerGas =
\* max(f * b / 100, that maxPriorityFeePerGas).
C18_MultiplyThenFloor ==
    PlainBump =>
        LET f == bumpCall[1].gasPrice.maxFeePerGas
            p == bumpCall[1].gasPrice.maxPriorityFeePerGas
            b == quoteConfig.gasPriceBump
            maxPriorityFeePerGas == maxBigInt((p * b) \div 100, chainFloor)
        IN bumpCall[1].result =
               GasPriceParameters(maxBigInt((f * b) \div 100, maxPriorityFeePerGas),
                                  maxPriorityFeePerGas)

\* C18 amended: the chain floor is applied to the input first and the
\* product is taken afterwards: maxPriorityFeePerGas = max(p, floor) * b / 100,
\* maxFeePerGas = max(f, max(p, floor)) * b / 100.
C18_FloorThenMultiply ==
    PlainBump =>
        LET f == bumpCall[1].gasPrice.maxFeePerGas
            p == bumpCall[1].gasPrice.maxPriorityFeePerGas
            b == quoteConfig.gasPriceBump
            floored == maxBigInt(p, chainFloor)
        IN bumpCall[1].result =
               GasPriceParameters((maxBigInt(f, floored) * b) \div 100,
                                  (floored * b) \div 100)

\* a Polygon estimate under the floor was bumped by 120
C18_Witness ==
    /\ PlainBump
    /\ quoteConfig.chain = "polygon"
    /\ quoteConfig.gasPriceBump = 120
    /\ bumpCall[1].gasPrice.maxPriorityFeePerGas \in 1..(chainFloor - 1)

\* C19: the bump returns, on Celo and Celo-Alfajores, the larger fee of the
\* bumped pair twice; on DFK no fee under 5 gwei; on Avalanche no fee under
\* 1.5 gwei; on every chain a maxFeePerGas that is at least the
\* maxPriorityFeePerGas.
C19_ChainOverrides ==
    bumpCall # <<>> =>
        LET f == bumpCall[1].gasPrice.maxFeePerGas
            p == bumpCall[1].gasPrice.maxPriorityFeePerGas
            b == quoteConfig.gasPriceBump
            result == bumpCall[1].result
            larger == maxBigInt((maxBigInt(f, p) * b) \div 100, (p * b) \div 100)
        IN /\ quoteConfig.chain \in {"celo", "celoAlfajores"} =>
                  result = GasPriceParameters(larger, larger)
           /\ quoteConfig.chain = "dfk" =>
                  /\ result.maxFeePerGas >= 5 * WeiPerGwei
                  /\ result.maxPriorityFeePerGas >= 5 * WeiPerGwei
           /\ quoteConfig.chain = "avalanche" =>
                  /\ result.maxFeePerGas >= (15 * WeiPerGwei) \div 10
                  /\ result.maxPriorityFeePerGas >= (15 * WeiPerGwei) \div 10
           /\ result.maxFeePerGas >= result.maxPriorityFeePerGas

\* a DFK estimate of zero fees was bumped
C19_Witness ==
    /\ bumpCall # <<>>
    /\ quoteConfig.chain = "dfk"
    /\ bumpCall[1].gasPrice = GasPriceParameters(0, 0)

\* the calls of the quote that failed
FailedCalls == {call \in DOMAIN quoteRpc : ~quoteRpc[call].ok}

\* C20: when a single call of a refresh fails (the gas-station fetch,
\* estimateFeesPerGas, eth_gasPrice, eth_feeHistory or getBlock), the refresh
\* falls back and returns a pair; it does not end with the error.
C20_SingleFailureAbsorbed ==
    (quote # <<>> /\ Cardinality(FailedCalls) = 1) => ~quote[1].thrown

\* C16: with a refresh interval above zero, getGasPrice starts no refresh and
\* returns the pair the most recent refresh computed and stored; with a
\* refresh interval of zero, it starts a refresh and returns the pair that
\* refresh computed.
C16_CachedPairIsLastRefresh ==
    [][/\ (getGasPrice_call /\ gasConfig.gasPriceRefreshInterval > 0) =>
              /\ refreshing' = refreshing
              /\ <<apiCall'.gasPrice>> = lastStored
       /\ (getGasPrice_call /\ gasConfig.gasPriceRefreshInterval = 0) =>
              /\ "caller" \in refreshing'
              /\ apiCall'.stage = "waiting"
       /\ \A rpc \in RefreshAnswers :
              (updateGasPrice_resume("caller", rpc) /\ apiCall'.outcome = "returned") =>
                  apiCall'.gasPrice = innerGetGasPrice(gasConfig, rpc).gasPrice]_vars

\* the minimum of the values of a queue, whatever its order
Minimum(values) ==
    CHOOSE m \in {values[i] : i \in 1..Len(values)} :
        \A i \in 1..Len(values) : m <= values[i]

\* the minima validateGasPrice compares with: the lowest maxFeePerGas of the
\* window when the call read it and the lowest maxPriorityFeePerGas of the
\* window now, in the unit of the chain
Minima ==
    LET fee == apiCall.lowestMaxFeePerGas
        priority == Minimum([i \in 1..Len(queueMaxPriorityFeePerGas) |->
                                 queueMaxPriorityFeePerGas[i].maxPriorityFeePerGas])
    IN IF gasConfig.chainType = "hedera"
       THEN GasPriceParameters(fee \div WeiPerGwei, priority \div WeiPerGwei)
       ELSE GasPriceParameters(fee, priority)

\* C17: validateGasPrice reads the lowest maxFeePerGas of the window, and
\* succeeds if and only if the two fees asked about are at least the lowest
\* maxFeePerGas and the lowest maxPriorityFeePerGas of the window, each
\* divided by 10^9 on Hedera; else it fails with the error that names the
\* minimum it found violated, maxFeePerGas first.
C17_ValidateAgainstWindowMinima ==
    [][/\ \A gasPrice \in ValidatedGasPrices :
              validateGasPrice_call(gasPrice) =>
                  apiCall'.lowestMaxFeePerGas =
                      Minimum([i \in 1..Len(queueMaxFeePerGas) |->
                                   queueMaxFeePerGas[i].maxFeePerGas])
       /\ validateGasPrice_resume =>
              LET q == apiCall.gasPrice
              IN /\ apiCall'.outcome = "ok" <=>
                        /\ q.maxFeePerGas >= Minima.maxFeePerGas
                        /\ q.maxPriorityFeePerGas >= Minima.maxPriorityFeePerGas
                 /\ q.maxFeePerGas < Minima.maxFeePerGas =>
                        /\ apiCall'.outcome = "maxFeePerGas must be at least"
                        /\ apiCall'.minimum = Minima.maxFeePerGas
                 /\ (/\ q.maxFeePerGas >= Minima.maxFeePerGas
                     /\ q.maxPriorityFeePerGas < Minima.maxPriorityFeePerGas) =>
                        /\ apiCall'.outcome = "maxPriorityFeePerGas must be at least"
                        /\ apiCall'.minimum = Minima.maxPriorityFeePerGas]_vars

\* on Hedera a fee under the last entry of the window, yet at the minimum of
\* the window divided by 10^9, was accepted
C17_Witness ==
    /\ gasConfig.chainType = "hedera"
    /\ apiCall.method = "validateGasPrice"
    /\ apiCall.outcome = "ok"
    /\ Len(queueMaxFeePerGas) = 2
    /\ queueMaxFeePerGas[1].maxFeePerGas < queueMaxFeePerGas[2].maxFeePerGas
    /\ apiCall.gasPrice.maxFeePerGas = queueMaxFeePerGas[1].maxFeePerGas \div WeiPerGwei

\* position of the user operation in the list (0 when it is not there)
At(list, op) == findIndex(list, op.userOperationHash)

\* position in the list of the first operation of the pair of op
PairAt(list, op) ==
    LET same == {i \in 1..Len(list) :
                     getSenderNonceKeyPair(list[i].userOperation)
                         = getSenderNonceKeyPair(op.userOperation)}
    IN CHOOSE i \in same : \A j \in same : i <= j

\* the step in which the multicall of a reconciliation returns and the loop
\* publishes its list
multicallReturns ==
    reconciliation.state = "pending" /\ reconciliation'.state = "fulfilled"

\* C21 as stated: the published list keeps the promoted operations in their
\* relative order in the outstanding snapshot.
C21_PublishedInSnapshotOrder ==
    [][multicallReturns =>
             LET S == reconciliation.outstandingOps
                 P == avaiableOutstandingUserOperations'
             IN \A i, j \in 1..Len(P) : i < j => At(S, P[i]) < At(S, P[j])]_vars

\* C21 amended: the published list holds the promoted operations pair by
\* pair, the (sender, nonceKey) pairs in the order of their first operation
\* in the snapshot and the operations of one pair in their order in the
\* snapshot.
C21_PublishedPairByPair ==
    [][multicallReturns =>
             LET S == reconciliation.outstandingOps
                 P == avaiableOutstandingUserOperations'
             IN \A i, j \in 1..Len(P) :
                    i < j => \/ PairAt(S, P[i]) < PairAt(S, P[j])
                             \/ /\ PairAt(S, P[i]) = PairAt(S, P[j])
                                /\ At(S, P[i]) < At(S, P[j])]_vars

\* h2 was admitted before h1, and is published after it: the pair of h1 was
\* seen first, in h4
C21_Witness ==
    /\ HashesOf(outstandingUserOperations) = {"h4", "h2", "h1"}
    /\ At(outstandingUserOperations, UserOperationInfo("h4")) = 1
    /\ At(outstandingUserOperations, UserOperationInfo("h2")) = 2
    /\ avaiableOutstandingUserOperations = <<UserOperationInfo("h1"), UserOperationInfo("h2")>>

\* C22: when removeOutstanding took an operation of the entry snapshot out of
\* outstanding while the reconciliation awaited its multicall, the list the
\* reconciliation publishes does not hold that operation: what it publishes
\* is within outstanding.
C22_RemovedDuringMulticallNotPublished ==
    [][multicallReturns =>
             /\ \A h \in HashesOf(reconciliation.outstandingOps) :
                    h \notin HashesOf(outstandingUserOperations) =>
                        h \notin HashesOf(avaiableOutstandingUserOperations')
             /\ HashesOf(avaiableOutstandingUserOperations')
                    \subseteq HashesOf(outstandingUserOperations')]_vars

PairOf(op) == <<op.userOperation.sender, getNonceKeyAndValue(op.userOperation)[1]>>

\* the list without the operations of the pair
WithoutPair(list, pair) == SelectSeq(list, LAMBDA op : PairOf(op) # pair)

\* C24: when the getNonce call of one pair of the snapshot fails within a
\* batch that succeeds, the reconciliation completes; it publishes no
\* operation of that pair and, of the other pairs, what it would publish
\* were the operations of that pair not in the snapshot; outstanding keeps
\* all its operations.
C24_FailedPairSkipped ==
    [][\A oracle \in Oracles :
         \A pair \in {PairOf(outstandingUserOperations[i]) :
                          i \in 1..Len(outstandingUserOperations)} :
             (/\ oracle[pair].status = "failure"
              /\ noteReconciliation(oracle)
              /\ updateAvailableUserOperations(oracle)) =>
                 /\ reconciliation'.state = "fulfilled"
                 /\ WithoutPair(avaiableOutstandingUserOperations', pair)
                        = avaiableOutstandingUserOperations'
                 /\ avaiableOutstandingUserOperations' =
                        availableOutstandingOps(
                            WithoutPair(outstandingUserOperations, pair), oracle)
                 /\ outstandingUserOperations' = outstandingUserOperations]_vars

\* the call for the pair of h1 failed and the one for the pair of h2 answered
\* its nonce: h2 alone was published, and h1 is still in outstanding
C24_Witness ==
    /\ lastReconciliation.valid
    /\ lastReconciliation.oracle[<<"0xA", 0>>].status = "failure"
    /\ lastReconciliation.oracle[<<"0xB", 1>>] = [status |-> "success", result |-> 0]
    /\ HashesOf(outstandingUserOperations) = {"h1", "h2"}
    /\ avaiableOutstandingUserOperations = <<UserOperationInfo("h2")>>

\* C25: a reconciliation leaves outstanding, processing and submitted as they
\* are; an operation of the available list whose pair the oracle now answers
\* with another nonce value is not in the list published, and is in
\* outstanding afterwards if it was before.
C25_ReconciliationOnlyWritesAvailable ==
    [][\A oracle \in Oracles :
         (noteReconciliation(oracle) /\ updateAvailableUserOperations(oracle)) =>
             /\ UNCHANGED <<outstandingUserOperations, processingUserOperations,
                            submittedUserOperations>>
             /\ \A i \in 1..Len(avaiableOutstandingUserOperations) :
                    LET op == avaiableOutstandingUserOperations[i]
                        answer == oracle[PairOf(op)]
                    IN (/\ answer.status = "success"
                        /\ answer.result # getNonceKeyAndValue(op.userOperation)[2]) =>
                           /\ op.userOperationHash
                                  \notin HashesOf(avaiableOutstandingUserOperations')
                           /\ op.userOperationHash \in HashesOf(outstandingUserOperations)
                                  => op.userOperationHash
                                         \in HashesOf(outstandingUserOperations')]_vars

\* h1 was available at nonce 0; the oracle moved to 1 and the reconciliation
\* took h1 out of the available list, not out of outstanding
C25_Witness ==
    /\ lastReconciliation.valid
    /\ lastReconciliation.oracle[<<"0xA", 0>>] = [status |-> "success", result |-> 1]
    /\ lastReconciliation.dropped = {"h1"}
    /\ "h1" \in HashesOf(outstandingUserOperations)
    /\ "h1" \notin HashesOf(avaiableOutstandingUserOperations)
    /\ processingUserOperations # <<>>

\* C26: a local getWallet that has acquired the semaphore finds an account in
\* the deque, whatever getWallet and pushWallet calls were made before, a
\* pushWallet of an account that is already in the deque included.
C26_EmptyDequeBranchUnreached ==
    [][\A c \in Callers : getWallet_resume(c) => availableWallets # <<>>]_vars

\* C27: local manager, every lessee giving back the account it holds in the
\* end: every getWallet call that had to wait resolves with an account, and
\* the calls resolve in the order they were made, so that no caller gets an
\* account while a caller that called earlier still waits.
C27_BlockedCallersServedInArrivalOrder ==
    /\ \A c \in Callers :
           (callerState[c] \in {"waiting", "acquired"}) ~> (callerState[c] = "holding")
    /\ [][\A c \in Callers :
              (callerState[c] # "holding" /\ callerState'[c] = "holding")
                  => (arrivals # <<>> /\ Head(arrivals) = c)]_vars

\* a caller that had to wait holds the account another caller gave back while
\* a caller that called after it still waits
C27_Witness ==
    \E c \in Callers, d \in Callers :
        /\ c # d
        /\ callerState[c] = "holding" /\ unblockedBy[c] # "none"
        /\ callerState[d] = "waiting"

Entry(field, fee, timestamp) ==
    IF field = "maxFeePerGas" THEN [timestamp |-> timestamp, maxFeePerGas |-> fee]
    ELSE IF field = "maxPriorityFeePerGas"
    THEN [timestamp |-> timestamp, maxPriorityFeePerGas |-> fee]
    ELSE [timestamp |-> timestamp, baseFeePerGas |-> fee]

\* the rule of a save of (fee, timestamp) that takes a queue of capacity
\* maxQueueSize from before to after
SaveRule(field, before, after, maxQueueSize, fee, timestamp) ==
    IF before = <<>> \/ timestamp - before[Len(before)].timestamp >= 1000
    THEN after = Append(IF Len(before) >= maxQueueSize
                        THEN SubSeq(before, 2, Len(before)) ELSE before,
                        Entry(field, fee, timestamp))
    ELSE IF fee < before[Len(before)][field]
    THEN /\ Len(after) = Len(before)
         /\ \A i \in 1..(Len(before) - 1) : after[i] = before[i]
         /\ after[Len(after)] = Entry(field, fee, timestamp)
    ELSE after = before

\* C29: a save of (value, now) on a fee queue appends the pair, after evicting
\* the oldest entry of a full queue, when the queue is empty or its last
\* entry is 1000 ms old or older; else overwrites the last entry with the pair
\* when the value is lower than the last one; else leaves the queue as it is.
\* Three saves (10, 0), (8, 500), (9, 1500) on a queue of capacity 3 leave
\* [(8, 500), (9, 1500)].
C29_SaveRule ==
    [][/\ \A fee \in SavedFees :
              saveMaxFeePerGas_call(fee)
                  => SaveRule("maxFeePerGas", queueMaxFeePerGas, queueMaxFeePerGas',
                              gasConfig.gasPriceExpiry, fee, now)
       /\ \A fee \in SavedTips :
              saveMaxPriorityFeePerGas_call(fee)
                  => SaveRule("maxPriorityFeePerGas", queueMaxPriorityFeePerGas,
                              queueMaxPriorityFeePerGas', gasConfig.gasPriceExpiry, fee, now)
       /\ \A fee \in SavedTips :
              saveBaseFeePerGas_call(fee)
                  => SaveRule("baseFeePerGas", queueBaseFeePerGas, queueBaseFeePerGas',
                              gasConfig.gasPriceExpiry, fee, now)
       /\ (/\ gasConfig.gasPriceExpiry = 3
           /\ queueMaxFeePerGas = <<Entry("maxFeePerGas", 8, 500)>>
           /\ now = 1500
           /\ saveMaxFeePerGas_call(9))
              => queueMaxFeePerGas' = <<Entry("maxFeePerGas", 8, 500),
                                        Entry("maxFeePerGas", 9, 1500)>>
       /\ (/\ queueMaxFeePerGas = <<Entry("maxFeePerGas", 10, 0)>>
           /\ now = 500
           /\ saveMaxFeePerGas_call(8))
              => queueMaxFeePerGas' = <<Entry("maxFeePerGas", 8, 500)>>]_vars

\* the queues of capacity 3 after the three saves
C29_Witness ==
    /\ gasConfig.gasPriceExpiry = 3
    /\ queueMaxFeePerGas = <<Entry("maxFeePerGas", 8, 500), Entry("maxFeePerGas", 9, 1500)>>
    /\ queueBaseFeePerGas = <<Entry("baseFeePerGas", 8, 500), Entry("baseFeePerGas", 9, 1500)>>
    /\ queueMaxPriorityFeePerGas = <<Entry("maxPriorityFeePerGas", 8, 500),
                                     Entry("maxPriorityFeePerGas", 9, 1500)>>

\* the timestamps of a queue do not go back and neighbours are a slice apart
SlicesApart(queue) ==
    \A i \in 1..(Len(queue) - 1) :
        /\ queue[i].timestamp <= queue[i + 1].timestamp
        /\ queue[i + 1].timestamp - queue[i].timestamp >= 1000

NextBaseFee(b, u, L) ==
    LET T == L \div 2
        rise == ((b * (u - T)) \div T) \div 8
        fall == ((b * (T - u)) \div T) \div 8
    IN IF u = T THEN b
       ELSE IF u > T THEN b + (IF rise > 1 THEN rise ELSE 1)
       ELSE b - fall

\* C31: for a latest block of base fee b, gasUsed u, gasLimit L and target
\* T = L / 2, getNextBaseFee returns b when u = T, b + max(b(u - T)/T/8, 1)
\* when u > T and b - b(T - u)/T/8 when u < T, which is never above b.
C31_NextBaseFeeFollowsGasUsed ==
    LET block == quoteRpc.getBlock
    IN (quote # <<>> /\ block.ok /\ block.baseFeePerGas # 0) =>
           /\ getNextBaseFee(quoteRpc)
                  = <<NextBaseFee(block.baseFeePerGas, block.gasUsed, block.gasLimit)>>
           /\ block.gasUsed < block.gasLimit \div 2 =>
                  getNextBaseFee(quoteRpc)[1] <= block.baseFeePerGas

\* C32 as stated: getMaxBaseFeePerGas, getMinMaxFeePerGas and
\* getMinMaxPriorityFeePerGas, called while their queue is empty, force a
\* refresh that fills the queue before they aggregate over it.
C32_EmptyQueueForcesRefresh ==
    [][/\ (getMaxBaseFeePerGas_call /\ queueBaseFeePerGas = <<>>)
              => "caller" \in fetchingBaseFee'
       /\ \A gasPrice \in ValidatedGasPrices :
              (validateGasPrice_call(gasPrice) /\ queueMaxFeePerGas = <<>>)
                  => "caller" \in refreshing'
       /\ (validateGasPrice_resume /\ queueMaxPriorityFeePerGas = <<>>)
              => "caller" \in refreshing']_vars

\* C32 amended: the getMin* calls of validateGasPrice always find their queue
\* filled and return the minimum over it without a refresh; getMaxBaseFeePerGas
\* finds its queue empty only under legacyTransactions, where it forces no
\* refresh and fails with the error of getBaseFee; no call reads an entry of
\* an empty queue.
C32_EmptyOnlyForLegacyBaseFee ==
    [][/\ (getMaxBaseFeePerGas_call /\ queueBaseFeePerGas = <<>>)
              => /\ gasConfig.legacyTransactions
                 /\ apiCall'.outcome = "baseFee is not available for legacy transactions"
                 /\ UNCHANGED fetchingBaseFee
       /\ (getMaxBaseFeePerGas_call /\ queueBaseFeePerGas # <<>>)
              => /\ apiCall'.outcome = "returned"
                 /\ \A i \in 1..Len(queueBaseFeePerGas) :
                        queueBaseFeePerGas[i].baseFeePerGas <= apiCall'.baseFeePerGas
                 /\ UNCHANGED fetchingBaseFee
       /\ \A gasPrice \in ValidatedGasPrices :
              validateGasPrice_call(gasPrice)
                  => /\ queueMaxFeePerGas # <<>>
                     /\ UNCHANGED refreshing
                     /\ \A i \in 1..Len(queueMaxFeePerGas) :
                            apiCall'.lowestMaxFeePerGas <= queueMaxFeePerGas[i].maxFeePerGas
       /\ validateGasPrice_resume
              => queueMaxPriorityFeePerGas # <<>> /\ UNCHANGED refreshing
       /\ apiCall'.outcome # "TypeError"]_vars

\* getMaxBaseFeePerGas of a manager of legacy transactions failed on its
\* empty queue
C32_Witness ==
    /\ apiCall.method = "getMaxBaseFeePerGas"
    /\ apiCall.outcome = "baseFee is not available for legacy transactions"
    /\ queueBaseFeePerGas = <<>>
    /\ fetchingBaseFee = {}

\* the entries of a queue are in the order of their timestamps
Ordered(queue) ==
    \A i \in 1..Len(queue), j \in 1..Len(queue) :
        i < j => queue[i].timestamp <= queue[j].timestamp

\* C33: under overlapping refreshes and any interleaving with readers, each
\* queue stays ordered by timestamp, and every step that writes to a fee
\* queue is one refresh recording both its maxFeePerGas and its
\* maxPriorityFeePerGas under one timestamp: no state between the two saves
\* is there for a reader to see.
C33_RefreshRecordsBothFeesAtOnce ==
    /\ [](/\ Ordered(queueMaxFeePerGas)
          /\ Ordered(queueMaxPriorityFeePerGas)
          /\ Ordered(queueBaseFeePerGas))
    /\ [][(\/ queueMaxFeePerGas' # queueMaxFeePerGas
           \/ queueMaxPriorityFeePerGas' # queueMaxPriorityFeePerGas)
              => \E rpc \in RefreshAnswers :
                     LET gasPrice == innerGetGasPrice(gasConfig, rpc).gasPrice
                     IN /\ ~innerGetGasPrice(gasConfig, rpc).thrown
                        /\ refreshing' # refreshing
                        /\ queueMaxFeePerGas' =
                               saveMaxFeePerGas(queueMaxFeePerGas, gasConfig.gasPriceExpiry,
                                                gasPrice.maxFeePerGas, now)
                        /\ queueMaxPriorityFeePerGas' =
                               saveMaxPriorityFeePerGas(queueMaxPriorityFeePerGas,
                                                        gasConfig.gasPriceExpiry,
                                                        gasPrice.maxPriorityFeePerGas,
                                                        now)]_vars

\* two refreshes of the timer overlapped, the later one has recorded its pair
\* while the earlier one still awaits its answers, and getGasPrice has read
\* the queues
C33_Witness ==
    /\ "timer1" \in refreshing
    /\ "timer2" \notin refreshing
    /\ nextFire >= 3 * 1000
    /\ last(queueMaxFeePerGas).timestamp >= 2 * 1000
    /\ last(queueMaxPriorityFeePerGas).timestamp >= 2 * 1000
    /\ apiCall.method = "getGasPrice"
    /\ apiCall.stage = "done"

\* C36: with a positive gasPriceRefreshInterval, the pair getGasPrice
\* returns has maxFeePerGas >= maxPriorityFeePerGas whenever every pair a
\* refresh computed has.
C36_CachedMaxFeeCoversPriorityFee ==
    (/\ gasConfig.gasPriceRefreshInterval > 0
     /\ \A rpc \in CachedAnswers :
            LET answer == innerGetGasPrice(gasConfig, rpc)
            IN ~answer.thrown =>
                   answer.gasPrice.maxFeePerGas >= answer.gasPrice.maxPriorityFeePerGas
     /\ apiCall.method = "getGasPrice"
     /\ apiCall.outcome = "returned")
        => apiCall.gasPrice.maxFeePerGas >= apiCall.gasPrice.maxPriorityFeePerGas


\* C38: once createGasPriceManager has returned, the maxFeePerGas and the
\* maxPriorityFeePerGas queue are non-empty, the baseFee queue is non-empty
\* unless legacyTransactions is set, whatever maxQueueSize (0 included), and
\* no cached getGasPrice or getBaseFee reads the last entry of an empty queue.
C38_QueuesFilledOnceCreated ==
    managerStage = "running" =>
        /\ queueMaxFeePerGas # <<>>
        /\ queueMaxPriorityFeePerGas # <<>>
        /\ gasConfig.legacyTransactions = FALSE => queueBaseFeePerGas # <<>>
        /\ apiCall.outcome # "TypeError"

\* maxQueueSize is 0, the timer's refreshes have evicted and replaced the
\* entries the creation stored, and a cached getBaseFee has returned
C38_Witness ==
    /\ managerStage = "running"
    /\ gasConfig.gasPriceExpiry = 0
    /\ gasConfig.gasPriceRefreshInterval > 0
    /\ gasConfig.legacyTransactions = FALSE
    /\ last(queueMaxFeePerGas).timestamp >= SliceMs
    /\ last(queueMaxPriorityFeePerGas).timestamp >= SliceMs
    /\ last(queueBaseFeePerGas).timestamp >= SliceMs
    /\ apiCall.method = "getBaseFee"
    /\ apiCall.outcome = "returned"
    /\ apiCall.baseFeePerGas = last(queueBaseFeePerGas).baseFeePerGas


\* the callers that hold the account w or have popped its address
holders(w) ==
    {c \in Callers :
        \/ callerState[c] = "holding" /\ callerWallet[c] = w
        \/ callerState[c] = "delaying" /\ walletAddress[c] = address(w)}

\* C34: on the shared backend no address is twice in the list, in the list
\* and leased, or leased to two holders, and the address of every wallet of a
\* process that is up is in the list or leased, whenever the processes start
\* and however their initialisations interleave.
C34_SharedAddressInOnePlace ==
    Shared =>
        \A w \in Range(ExecutorPrivateKeys) :
            LET places == Count(redisList, address(w)) + Cardinality(holders(w))
            IN /\ places <= 1
               /\ (\E p \in Processes :
                       processStage[p] = "up" /\ w \in Range(walletsOf(p)))
                      => places = 1

\* the addresses that are in the list or leased
inListOrLeased ==
    Len(redisList)
        + Cardinality({c \in Callers :
              \/ callerState[c] = "holding"
              \/ callerState[c] = "delaying" /\ walletAddress[c] # "null"})

\* C35: the shared getWallet hands every address it popped to its caller
\* as the account of that address, so the steps of getWallet and pushWallet
\* leave the number of addresses in the list plus the number leased as it
\* was.
C35_PoppedAddressIsHandedOut ==
    [][\A c \in Callers :
         (callerState[c] \in {"polling", "delaying", "holding"}
              /\ callerState'[c] # callerState[c]) =>
             /\ inListOrLeased' = inListOrLeased
             /\ (callerState[c] = "delaying" /\ walletAddress[c] # "null") =>
                    /\ callerState'[c] = "holding"
                    /\ address(callerWallet'[c]) = walletAddress[c]]_vars


\* C37: after any sequence of addOutstanding, removeOutstanding and
\* updateAvailableUserOperations calls the gauge of the outstanding user
\* operations is the length of the outstanding list.
C37_GaugeIsOutstandingLength ==
    userOperationsInMempool = Len(outstandingUserOperations)

=============================================================================
